---- MODULE Spec2Model ----
(***************************************************************************)
(* Sensor acquisition subsystem: the SensorHub driver registry and the     *)
(* SensorService scheduler, cache and CSV persistence.                     *)
(*                                                                         *)
(* Threads are modelled one shared-memory access per step: the callers of  *)
(* run(), stop() and get_latest(), and the worker thread(s) running        *)
(* SensorService::threads().  A sample buffer is modelled field by field:  *)
(* one entry of `data` per store the driver performs (bus_mv, current_ma,  *)
(* power_mw, ts_ms for INA226; temp_mc, rh_mpermille, ts_ms for AHT20).    *)
(* Sizes are kept in bytes.  Error codes are kept by name.                 *)
(***************************************************************************)
EXTENDS Integers, Sequences, FiniteSets, TLC

\* ---------------------------------------------------------------- constants

Ina226 == 0
Aht20 == 1
kMaxDrivers == 8
kMaxSampleBytes == 64
kSamplePeriodMs == 1000
kLogPeriodMs == 5000
kPersistPeriodMs == 10000
SizeofIna226Sample == 24
SizeofAht20Sample == 16

\* ------------------------------------------------------------------- bounds

\* distinct measurements a device can deliver
NumVals == 2
\* worker thread slots (an exiting worker and its successor can coexist)
MaxWorkers == 2
\* sampling periods the clock may advance, per specification
MaxRoundsLife == 1
MaxRoundsCache == 2
MaxRoundsThrottle == 21
\* sampling periods of the persistence specifications, run() calls of the latch one
MaxRoundsPersist == 21
MaxRunsLatch == 2
\* run() calls of the start-up specification
MaxRunsStartup == 2
\* sample periods of the rows specification: past two persistence periods
MaxRoundsRows == 21

\* run() calls and sample periods of the files specification: two runs, each past a
\* persistence period
MaxRunsFiles == 2
MaxRoundsFiles == 22

\* sample periods of the log specification: past two snapshot logs
MaxRoundsLog == 11

\* the largest type tag the application initialises and reads one by one
MaxUsedTag == 2
\* run() calls per caller of the overlap specification
MaxRunsOverlap == 2
\* sampling periods of the lock specification: one past the first persistence
MaxRoundsLock == 11

Types == {Ina226, Aht20}
\* SensorType values a driver can carry: the two built-in ones and further drivers
\* an application defines, enough of them to overfill the table
HubTags == 0..(kMaxDrivers + 1)
Workers == 1..MaxWorkers
RunCallers == {1, 2}
StopCallers == {1}
Readers == {1}
MaxFields == 4
Fields == 1..MaxFields
CacheIdx == 1..kMaxDrivers

\* the caller's buffer before get_latest touches it
Untouched == -1

VARIABLES
  slots,                    \* SensorHub::slots_[0..driver_count_): <<[type, initialized]>>
  drv_ready,                \* driver ready_ flag, per type
  hub_call,                 \* history: the application's last call of the Hub and its result
  dev_ready,                \* device_is_ready(dev_), per type (environment)
  rtc_ok,                   \* the RTC device answers (environment)
  sd_ok,                    \* the storage medium accepts writes (environment)
  now,                      \* k_uptime_get()
  running_, stop_requested_, thread_id_, mutex_,
  cache_, cache_count_,
  next_log_ms_, next_persist_ms_,
  storage_error_streak_, storage_header_written_, storage_persist_enabled_,
  persist_file_path_,
  worker,                   \* per worker slot: position in threads()
  rcall,                    \* per run() caller: position in run()
  scall,                    \* per stop() caller: position in stop()
  gcall,                    \* per get_latest() caller: position, arguments, buffer
  err_sink,                 \* log_.error calls of the sampling loop, per entry and streak
  log_snapshot,             \* lines of the last snapshot log
  sd_writes,                \* write_file calls that succeeded: <<[path, kind, append, data]>>
  sd_last,                  \* bytes of the last row handed to write_file
  sd_calls,                 \* history: number of write_file calls made so far
  persist_errs,             \* log_.error calls of persistence since the last run() reset
  hist,                     \* history: outcomes of the reads of each entry in this run
  produced,                 \* history: measurements each type's driver has delivered
  last_good,                \* history: the sample of the last successful read, per entry
  stop_pending,             \* history: a stop request set while running, not yet honoured
  stop_done                 \* history: a stop() call has returned and no worker was spawned since

hubVars == <<slots, drv_ready, hub_call>>
envVars == <<dev_ready, rtc_ok, sd_ok>>
flagVars == <<running_, stop_requested_, thread_id_>>
cacheVars == <<cache_, cache_count_>>
deadlineVars == <<next_log_ms_, next_persist_ms_>>
persistVars == <<storage_error_streak_, storage_header_written_,
                 storage_persist_enabled_, persist_file_path_>>
sdVars == <<sd_writes, sd_last, sd_calls, persist_errs>>
callVars == <<rcall, scall, gcall>>
histVars == <<hist, produced, last_good>>
stopHist == <<stop_pending, stop_done>>
vars == <<hubVars, envVars, now, flagVars, mutex_, cacheVars, deadlineVars, persistVars,
          worker, callVars, err_sink, log_snapshot, sdVars, histVars, stopHist>>

\* ------------------------------------------------------------------ drivers

\* an application's driver whose sample fits a cache entry, and the size of its sample
SmallDriver == kMaxDrivers + 1
SizeofSmallSample == 12

\* ISensorDriver::sample_size(): the built-in drivers answer the size of their sample
\* struct; a driver of any other type is an application's, taken here with a sample
\* one byte larger than a cache entry holds, but for SmallDriver
DriverSampleSize(t) ==
  IF t = Ina226 THEN SizeofIna226Sample
  ELSE IF t = Aht20 THEN SizeofAht20Sample
  ELSE IF t = SmallDriver THEN SizeofSmallSample
  ELSE kMaxSampleBytes + 1

\* the stores a driver's typed read() performs, in order
DriverFields(t) == IF t = Ina226 THEN 4 ELSE 3

\* the value field k of type t holds after a read that measured v
FieldVal(t, k, v) == ((t + 1) * 10 + k) * 10 + v

ZeroData == [k \in Fields |-> 0]

\* the complete sample a read of type t that measured v leaves in a buffer
SampleOf(t, v) == [k \in Fields |-> IF k <= DriverFields(t) THEN FieldVal(t, k, v) ELSE 0]

\* ---------------------------------------------------------------- SensorHub

\* mutant: the lookup never finds a slot
find_slot_none(sl, t) == 0

\* find_slot: the 1-based slot of type t, 0 when there is none (-1 in the source)
find_slot(sl, t) ==
  IF \E i \in 1..Len(sl) : sl[i].type = t
  THEN CHOOSE i \in 1..Len(sl) : sl[i].type = t /\ \A j \in 1..(i - 1) : sl[j].type # t
  ELSE 0

\* mutant: the capacity check is off by one (a ninth driver fits)
register_driver_off_by_one(sl, t) ==
  IF find_slot(sl, t) > 0 THEN [ret |-> "EALREADY", slots |-> sl]
  ELSE IF Len(sl) > kMaxDrivers THEN [ret |-> "ENOSPC", slots |-> sl]
  ELSE [ret |-> "OK", slots |-> Append(sl, [type |-> t, initialized |-> FALSE])]

\* mutant: a new driver is put in front of the registered ones
register_driver_prepend(sl, t) ==
  IF find_slot(sl, t) > 0 THEN [ret |-> "EALREADY", slots |-> sl]
  ELSE IF Len(sl) >= kMaxDrivers THEN [ret |-> "ENOSPC", slots |-> sl]
  ELSE [ret |-> "OK", slots |-> <<[type |-> t, initialized |-> FALSE]>> \o sl]

\* register_driver: the return code and the table afterwards
register_driver(sl, t) ==
  IF find_slot(sl, t) > 0 THEN [ret |-> "EALREADY", slots |-> sl]
  ELSE IF Len(sl) >= kMaxDrivers THEN [ret |-> "ENOSPC", slots |-> sl]
  ELSE [ret |-> "OK", slots |-> Append(sl, [type |-> t, initialized |-> FALSE])]

\* ZephyrIna226Sensor::init / ZephyrAht20Sensor::init
driver_init(rdy, dev, t) ==
  IF rdy[t] THEN [ret |-> "OK", ready |-> rdy]
  ELSE IF ~dev[t] THEN [ret |-> "ENODEV", ready |-> rdy]
  ELSE [ret |-> "OK", ready |-> [rdy EXCEPT ![t] = TRUE]]

\* mutant: init_all goes on after a failed init and returns the error at the end
RECURSIVE init_all_from_continue(_, _, _, _, _)
init_all_from_continue(i, sl, rdy, dev, inits) ==
  IF i > Len(sl) THEN [ret |-> "OK", slots |-> sl, ready |-> rdy, inits |-> inits]
  ELSE IF sl[i].initialized THEN init_all_from_continue(i + 1, sl, rdy, dev, inits)
  ELSE LET r == IF rdy[sl[i].type] \/ dev[sl[i].type]
                THEN [ret |-> "OK", ready |-> [rdy EXCEPT ![sl[i].type] = TRUE]]
                ELSE [ret |-> "ENODEV", ready |-> rdy]
           rest == init_all_from_continue(
                     i + 1, IF r.ret = "OK" THEN [sl EXCEPT ![i].initialized = TRUE] ELSE sl,
                     r.ready, dev, Append(inits, i))
       IN IF r.ret # "OK" THEN [rest EXCEPT !.ret = r.ret] ELSE rest

\* init_all, from slot i on: the first failure returns at once.  `inits` lists the
\* slots whose driver init() has been called, in call order.
RECURSIVE init_all_from(_, _, _, _, _)
init_all_from(i, sl, rdy, dev, inits) ==
  IF i > Len(sl) THEN [ret |-> "OK", slots |-> sl, ready |-> rdy, inits |-> inits]
  ELSE IF sl[i].initialized THEN init_all_from(i + 1, sl, rdy, dev, inits)
  ELSE LET r == driver_init(rdy, dev, sl[i].type) IN
       IF r.ret # "OK"
       THEN [ret |-> r.ret, slots |-> sl, ready |-> r.ready, inits |-> Append(inits, i)]
       ELSE init_all_from(i + 1, [sl EXCEPT ![i].initialized = TRUE], r.ready, dev,
                          Append(inits, i))

init_all(sl, rdy, dev) == init_all_from(1, sl, rdy, dev, <<>>)

\* mutant: init(type) calls the driver's init whether the slot is initialised or
\* not, and marks the slot whatever the driver returns
hub_init_always(sl, rdy, dev, t) ==
  LET idx == find_slot(sl, t) IN
  IF idx = 0 THEN [ret |-> "ENOENT", slots |-> sl, ready |-> rdy, inits |-> <<>>]
  ELSE LET r == driver_init(rdy, dev, t) IN
       [ret |-> r.ret, slots |-> [sl EXCEPT ![idx].initialized = TRUE],
        ready |-> r.ready, inits |-> <<idx>>]

\* mutant: read calls the driver's read without initialising the slot
hub_read_enter_no_init(sl, rdy, dev, t, out_size) ==
  LET idx == find_slot(sl, t) IN
  IF idx = 0 THEN [ret |-> "ENOENT", slots |-> sl, ready |-> rdy, inits |-> <<>>]
  ELSE IF out_size < DriverSampleSize(t)
  THEN [ret |-> "ENOSPC", slots |-> sl, ready |-> rdy, inits |-> <<>>]
  ELSE [ret |-> "OK", slots |-> sl, ready |-> rdy, inits |-> <<>>]

\* init(type): lazy initialisation of one slot; `inits` lists the slots whose driver
\* init() has been called
hub_init(sl, rdy, dev, t) ==
  LET idx == find_slot(sl, t) IN
  IF idx = 0 THEN [ret |-> "ENOENT", slots |-> sl, ready |-> rdy, inits |-> <<>>]
  ELSE IF sl[idx].initialized
  THEN [ret |-> "OK", slots |-> sl, ready |-> rdy, inits |-> <<>>]
  ELSE LET r == driver_init(rdy, dev, t) IN
       IF r.ret # "OK"
       THEN [ret |-> r.ret, slots |-> sl, ready |-> r.ready, inits |-> <<idx>>]
       ELSE [ret |-> "OK", slots |-> [sl EXCEPT ![idx].initialized = TRUE],
             ready |-> r.ready, inits |-> <<idx>>]

registered_count(sl) == Len(sl)

registered_type_at(sl, index) ==
  IF index > Len(sl) THEN [ret |-> "ENOENT", type |-> Ina226]
  ELSE [ret |-> "OK", type |-> sl[index].type]

sample_size(sl, t) ==
  IF find_slot(sl, t) = 0 THEN [ret |-> "ENOENT", size |-> 0]
  ELSE [ret |-> "OK", size |-> DriverSampleSize(t)]

\* mutant: read initialises the slot before it compares the buffer size
hub_read_enter_init_first(sl, rdy, dev, t, out_size) ==
  LET idx == find_slot(sl, t)
      r == hub_init(sl, rdy, dev, t)
  IN IF idx = 0 THEN [ret |-> "ENOENT", slots |-> sl, ready |-> rdy, inits |-> <<>>]
     ELSE IF r.ret # "OK" THEN r
     ELSE IF out_size < DriverSampleSize(t) THEN [r EXCEPT !.ret = "ENOSPC"]
     ELSE r

\* SensorHub::read up to the call of the driver's read: argument check, slot lookup,
\* size check, lazy init.  "OK" means the driver's read is called next.
hub_read_enter(sl, rdy, dev, t, out_size) ==
  LET idx == find_slot(sl, t) IN
  IF idx = 0 THEN [ret |-> "ENOENT", slots |-> sl, ready |-> rdy, inits |-> <<>>]
  ELSE IF out_size < DriverSampleSize(t)
  THEN [ret |-> "ENOSPC", slots |-> sl, ready |-> rdy, inits |-> <<>>]
  ELSE hub_init(sl, rdy, dev, t)

\* SensorHub::read as a whole, called with a buffer (null or not) of out_size bytes
\* while the device fails the fetch (outcome 0) or delivers a measurement: the return
\* code, the table afterwards, the driver inits called, whether the driver's read
\* was called and whether it stored a sample into the buffer
hub_read(sl, rdy, dev, t, null, out_size, outcome) ==
  IF null
  THEN [ret |-> "EINVAL", slots |-> sl, ready |-> rdy, inits |-> <<>>,
        reads |-> FALSE, wrote |-> FALSE]
  ELSE LET e == hub_read_enter(sl, rdy, dev, t, out_size) IN
       IF e.ret # "OK"
       THEN [ret |-> e.ret, slots |-> e.slots, ready |-> e.ready, inits |-> e.inits,
             reads |-> FALSE, wrote |-> FALSE]
       ELSE [ret |-> IF outcome = 0 THEN "EIO" ELSE "OK", slots |-> e.slots,
             ready |-> e.ready, inits |-> e.inits, reads |-> TRUE, wrote |-> outcome # 0]

\* mutant: the failing read has already stored its first field
driver_read_failed_partial(buf, t) == [buf EXCEPT ![1] = 0]

\* the buffer after a driver read that fails: every failure return of the typed
\* read() precedes its first store
driver_read_failed(buf, t) == buf

\* the buffer after store k of a driver read that measured v
driver_store(buf, t, k, v) == [buf EXCEPT ![k] = FieldVal(t, k, v)]

\* mutant: the accessor builds a new Hub on every call
sensor_hub_fresh(sl) ==
  register_driver(register_driver(<<>>, Ina226).slots, Aht20).slots

\* platform::sensor_hub(): the table of the static Hub after a call: both built-in
\* drivers are registered, whatever register_driver returns
sensor_hub(sl) ==
  register_driver(register_driver(sl, Ina226).slots, Aht20).slots

\* no call of the Hub by the application yet
NoHubCall == [op |-> "none", type |-> -1, size |-> 0, ret |-> "none", inits |-> <<>>,
              reads |-> FALSE, wrote |-> FALSE]

\* application thread: sensor_hub().register_driver(driver of type t)
RegisterDriver(t) ==
  /\ slots' = register_driver(slots, t).slots
  /\ hub_call' = [NoHubCall EXCEPT !.op = "register_driver", !.type = t,
                                    !.ret = register_driver(slots, t).ret]
  /\ UNCHANGED <<drv_ready, envVars, now, flagVars, mutex_, cacheVars, deadlineVars,
                 persistVars, worker, callVars, err_sink, log_snapshot, sdVars, histVars,
                 stopHist>>

\* a thread calls platform::sensor_hub()
SensorHubCall ==
  /\ slots' = sensor_hub(slots)
  /\ hub_call' = [NoHubCall EXCEPT !.op = "sensor_hub", !.ret = "OK"]
  /\ UNCHANGED <<drv_ready, envVars, now, flagVars, mutex_, cacheVars, deadlineVars,
                 persistVars, worker, callVars, err_sink, log_snapshot, sdVars, histVars,
                 stopHist>>

\* application thread: sensors_init(), that is sensor_hub().init_all()
HubInitAll ==
  /\ LET r == init_all(slots, drv_ready, dev_ready) IN
     /\ slots' = r.slots
     /\ drv_ready' = r.ready
     /\ hub_call' = [NoHubCall EXCEPT !.op = "init_all", !.ret = r.ret, !.inits = r.inits]
  /\ UNCHANGED <<envVars, now, flagVars, mutex_, cacheVars, deadlineVars,
                 persistVars, worker, callVars, err_sink, log_snapshot, sdVars, histVars,
                 stopHist>>

\* application thread: sensor_hub().init(t)
HubInit(t) ==
  /\ LET r == hub_init(slots, drv_ready, dev_ready, t) IN
     /\ slots' = r.slots
     /\ drv_ready' = r.ready
     /\ hub_call' = [NoHubCall EXCEPT !.op = "init", !.type = t, !.ret = r.ret,
                                      !.inits = r.inits]
  /\ UNCHANGED <<envVars, now, flagVars, mutex_, cacheVars, deadlineVars,
                 persistVars, worker, callVars, err_sink, log_snapshot, sdVars, histVars,
                 stopHist>>

\* application thread: sensor_hub().read(t, out, out_size) into a buffer of its own
HubRead(t, null, out_size, outcome) ==
  /\ LET r == hub_read(slots, drv_ready, dev_ready, t, null, out_size, outcome) IN
     /\ slots' = r.slots
     /\ drv_ready' = r.ready
     /\ hub_call' = [op |-> "read", type |-> t, size |-> out_size, ret |-> r.ret,
                     inits |-> r.inits, reads |-> r.reads, wrote |-> r.wrote]
  /\ UNCHANGED <<envVars, now, flagVars, mutex_, cacheVars, deadlineVars,
                 persistVars, worker, callVars, err_sink, log_snapshot, sdVars, histVars,
                 stopHist>>

\* environment: the device behind the driver of type t stops or starts answering
DeviceChange(t) ==
  /\ dev_ready' = [dev_ready EXCEPT ![t] = ~dev_ready[t]]
  /\ UNCHANGED <<hubVars, rtc_ok, sd_ok, now, flagVars, mutex_, cacheVars, deadlineVars,
                 persistVars, worker, callVars, err_sink, log_snapshot, sdVars, histVars,
                 stopHist>>

\* ------------------------------------------------- SensorService: the cache

EmptyEntry == [type |-> Ina226, sample_size |-> 0, valid |-> FALSE, data |-> ZeroData,
               error_streak |-> 0]

\* mutant: the lookup ignores the type and answers the first entry
find_cache_index_first(cache, count, t) == IF count >= 1 THEN 1 ELSE 0

find_cache_index(cache, count, t) ==
  IF \E i \in 1..count : cache[i].type = t
  THEN CHOOSE i \in 1..count : cache[i].type = t /\ \A j \in 1..(i - 1) : cache[j].type # t
  ELSE 0

\* mutant: the loop of rebuild_cache_layout accepts a sample size of any length
RECURSIVE rebuild_from_unchecked(_, _, _, _)
rebuild_from_unchecked(i, cache, count, sl) ==
  IF i > count THEN [ret |-> "OK", cache |-> cache]
  ELSE LET ty == registered_type_at(sl, i)
           sz == sample_size(sl, ty.type)
       IN IF ty.ret # "OK" THEN [ret |-> ty.ret, cache |-> cache]
          ELSE IF sz.ret # "OK" THEN [ret |-> sz.ret, cache |-> cache]
          ELSE rebuild_from_unchecked(i + 1,
                 [cache EXCEPT ![i] = [type |-> ty.type, sample_size |-> sz.size,
                                       valid |-> FALSE, data |-> ZeroData,
                                       error_streak |-> 0]],
                 count, sl)

\* the loop of rebuild_cache_layout from entry i on: a failure leaves the entries
\* before i rebuilt
RECURSIVE rebuild_from(_, _, _, _)
rebuild_from(i, cache, count, sl) ==
  IF i > count THEN [ret |-> "OK", cache |-> cache]
  ELSE LET ty == registered_type_at(sl, i)
           sz == sample_size(sl, ty.type)
       IN IF ty.ret # "OK" THEN [ret |-> ty.ret, cache |-> cache]
          ELSE IF sz.ret # "OK" THEN [ret |-> sz.ret, cache |-> cache]
          ELSE IF sz.size > kMaxSampleBytes THEN [ret |-> "ENOSPC", cache |-> cache]
          ELSE rebuild_from(i + 1,
                 [cache EXCEPT ![i] = [type |-> ty.type, sample_size |-> sz.size,
                                       valid |-> FALSE, data |-> ZeroData,
                                       error_streak |-> 0]],
                 count, sl)

rebuild_cache_layout(cache, count, sl) ==
  IF registered_count(sl) > kMaxDrivers
  THEN [ret |-> "ENOSPC", cache |-> cache, count |-> count]
  ELSE LET r == rebuild_from(1, cache, registered_count(sl), sl)
       IN [ret |-> r.ret, cache |-> r.cache, count |-> registered_count(sl)]

\* mutant: the reminder is off by one (failures 1, 11, 21, ...)
ShouldLogFailure_off_by_one(n) == n % 10 = 1

\* the throttle of the sampling loop: log failure number n of a streak?
ShouldLogFailure(n) == n = 1 \/ n % 10 = 0

\* mutant: the size check comes before the validity check
get_latest_check_size_first(cache, count, t, out_size) ==
  LET idx == find_cache_index(cache, count, t) IN
  IF idx = 0 THEN "ENOENT"
  ELSE IF out_size < cache[idx].sample_size THEN "ENOSPC"
  ELSE IF ~cache[idx].valid THEN "EAGAIN"
  ELSE "OK"

\* get_latest's checks under the lock, in the order of the source
get_latest_check(cache, count, t, out_size) ==
  LET idx == find_cache_index(cache, count, t) IN
  IF idx = 0 THEN "ENOENT"
  ELSE IF ~cache[idx].valid THEN "EAGAIN"
  ELSE IF out_size < cache[idx].sample_size THEN "ENOSPC"
  ELSE "OK"

\* mutant: a failed read also drops the entry's validity
entry_after_failure_invalidates(e) ==
  [e EXCEPT !.data = driver_read_failed(@, e.type), !.error_streak = @ + 1,
            !.valid = FALSE]

\* threads(): the entry after a read that returned ret < 0 (++error_streak; valid and
\* the bytes are left alone, apart from what the failed driver read did to them)
entry_after_failure(e) ==
  [e EXCEPT !.data = driver_read_failed(@, e.type), !.error_streak = @ + 1]

\* threads(): the entry after a read that returned 0 (valid = true, error_streak = 0)
entry_after_success(e) == [e EXCEPT !.valid = TRUE, !.error_streak = 0]

\* mutant: a plain store in place of the compare-and-set
atomic_cas_blind(target, old, new) == [swapped |-> TRUE, value |-> new]

\* atomic_cas(&target, old, new): whether it swapped, and the value afterwards
atomic_cas(target, old, new) ==
  IF target = old THEN [swapped |-> TRUE, value |-> new]
  ELSE [swapped |-> FALSE, value |-> target]

\* mutant: the worker thread (owners above the get_latest callers) never unlocks
mutex_unlock_worker_keeps(m, g) == IF m = g /\ g <= Cardinality(Readers) THEN 0 ELSE m

\* k_mutex_unlock by thread g: only the owner releases
mutex_unlock(m, g) == IF m = g THEN 0 ELSE m

\* ------------------------------------------------------------ history helpers

\* hist[i]: kind of the reads of entry i so far in this run, their number, the last outcome
HistKind(h, ok) ==
  IF ok THEN (IF h \in {"none", "all_ok"} THEN "all_ok" ELSE "mixed")
  ELSE (IF h \in {"none", "all_fail"} THEN "all_fail" ELSE "mixed")

HistAfter(h, ok) == [kind |-> HistKind(h.kind, ok), n |-> h.n + 1, last_ok |-> ok]

NoHist == [i \in CacheIdx |-> [kind |-> "none", n |-> 0, last_ok |-> FALSE]]
NoSink == [i \in CacheIdx |-> {}]
NoGood == [i \in CacheIdx |-> ZeroData]

\* ------------------------------------------------------------------- run()

\* persist_file_path_ after memset: the empty string
NoPath == <<>>

IdleRun == [pc |-> "idle", ret |-> "none", path |-> "none", calls |-> 0,
            after_stop |-> FALSE, regs |-> {}]

\* the types registered in the Hub
RegisteredTypes(sl) == {sl[i].type : i \in 1..Len(sl)}

\* mutant: a failure return of run() that forgets atomic_set(&running_, 0)
RunFail_keeps_running(c, ret) ==
  /\ running_' = running_
  /\ stop_pending' = stop_pending
  /\ rcall' = [rcall EXCEPT ![c].pc = "idle", ![c].ret = ret]

\* a failure return of run(): atomic_set(&running_, 0), log, return ret
RunFail(c, ret) ==
  /\ running_' = 0
  /\ stop_pending' = FALSE
  /\ rcall' = [rcall EXCEPT ![c].pc = "idle", ![c].ret = ret]

\* run(): atomic_cas(&running_, 0, 1); a caller makes at most `budget` calls (0: any number)
RunCas(c, budget) ==
  /\ rcall[c].pc = "idle"
  /\ budget = 0 \/ rcall[c].calls < budget
  /\ LET n == IF budget = 0 THEN 0 ELSE rcall[c].calls + 1
         cas == atomic_cas(running_, 0, 1)
     IN
     IF cas.swapped
     THEN /\ running_' = cas.value
          /\ rcall' = [rcall EXCEPT ![c] = [pc |-> "init_all", ret |-> "pending",
                                            path |-> "startup", calls |-> n,
                                            after_stop |-> stop_done,
                                            regs |-> RegisteredTypes(slots)]]
     ELSE /\ running_' = cas.value
          /\ rcall' = [rcall EXCEPT ![c] = [pc |-> "idle", ret |-> "OK",
                                            path |-> "already", calls |-> n,
                                            after_stop |-> stop_done,
                                            regs |-> RegisteredTypes(slots)]]
  /\ UNCHANGED <<hubVars, envVars, now, stop_requested_, thread_id_, mutex_, cacheVars,
                 deadlineVars, persistVars, worker, scall, gcall, err_sink, log_snapshot,
                 sdVars, histVars, stopHist>>

\* run(): sensor_hub_.init_all()
RunInitAll(c) ==
  /\ rcall[c].pc = "init_all"
  /\ LET r == init_all(slots, drv_ready, dev_ready) IN
     /\ slots' = r.slots
     /\ drv_ready' = r.ready
     /\ IF r.ret # "OK" THEN RunFail(c, r.ret)
        ELSE /\ rcall' = [rcall EXCEPT ![c].pc = "mutex_init"]
             /\ UNCHANGED <<running_, stop_pending>>
  /\ UNCHANGED <<hub_call, envVars, now, stop_requested_, thread_id_, mutex_, cacheVars,
                 deadlineVars, persistVars, worker, scall, gcall, err_sink, log_snapshot,
                 sdVars, histVars, stop_done>>

\* run(): k_mutex_init(&mutex_)
RunMutexInit(c) ==
  /\ rcall[c].pc = "mutex_init"
  /\ mutex_' = 0
  /\ rcall' = [rcall EXCEPT ![c].pc = "rebuild"]
  /\ UNCHANGED <<hubVars, envVars, now, flagVars, cacheVars, deadlineVars, persistVars,
                 worker, scall, gcall, err_sink, log_snapshot, sdVars, histVars,
                 stopHist>>

\* run(): rebuild_cache_layout()
RunRebuild(c) ==
  /\ rcall[c].pc = "rebuild"
  /\ LET r == rebuild_cache_layout(cache_, cache_count_, slots) IN
     /\ cache_' = r.cache
     /\ cache_count_' = r.count
     /\ IF r.ret # "OK" THEN RunFail(c, r.ret)
        ELSE /\ rcall' = [rcall EXCEPT ![c].pc = "reset"]
             /\ UNCHANGED <<running_, stop_pending>>
  /\ hist' = NoHist
  /\ err_sink' = NoSink
  /\ last_good' = NoGood
  /\ UNCHANGED <<hubVars, envVars, now, stop_requested_, thread_id_, mutex_, deadlineVars,
                 persistVars, worker, scall, gcall, log_snapshot, sdVars, produced,
                 stop_done>>

\* run(): atomic_set(&stop_requested_, 0) and the reset of deadlines and persistence state
RunReset(c) ==
  /\ rcall[c].pc = "reset"
  /\ stop_requested_' = 0
  /\ next_log_ms_' = 0
  /\ next_persist_ms_' = 0
  /\ storage_error_streak_' = 0
  /\ storage_header_written_' = FALSE
  /\ storage_persist_enabled_' = TRUE
  /\ persist_file_path_' = NoPath
  /\ persist_errs' = <<>>
  /\ rcall' = [rcall EXCEPT ![c].pc = "path"]
  /\ UNCHANGED <<hubVars, envVars, now, running_, thread_id_, mutex_, cacheVars, worker,
                 scall, gcall, err_sink, log_snapshot, sd_writes, sd_last, sd_calls,
                 histVars, stopHist>>

\* the file path build_persist_file_path_from_rtc formats from the RTC time
PathOfRtc(t) == <<"/SD:/", t, "_sensor.csv">>

\* run(): build_persist_file_path_from_rtc()
RunPath(c) ==
  /\ rcall[c].pc = "path"
  /\ IF rtc_ok
     THEN /\ persist_file_path_' = PathOfRtc(now)
          /\ rcall' = [rcall EXCEPT ![c].pc = "create"]
          /\ UNCHANGED <<running_, stop_pending>>
     ELSE /\ persist_file_path_' = persist_file_path_
          /\ RunFail(c, "ENODEV")
  /\ UNCHANGED <<hubVars, envVars, now, stop_requested_, thread_id_, mutex_, cacheVars,
                 deadlineVars, storage_error_streak_, storage_header_written_,
                 storage_persist_enabled_, worker, scall, gcall, err_sink, log_snapshot,
                 sdVars, histVars, stop_done>>

DeadWorker == [pc |-> "dead", i |-> 0, k |-> 0, v |-> 0]

\* run(): thread_id_ = k_thread_create(...); return 0
RunCreate(c) ==
  /\ rcall[c].pc = "create"
  /\ \E w \in Workers :
       /\ worker[w].pc = "dead"
       /\ \A u \in Workers : u < w => worker[u].pc # "dead"
       /\ worker' = [worker EXCEPT ![w].pc = "start"]
       /\ thread_id_' = w
  /\ rcall' = [rcall EXCEPT ![c].pc = "idle", ![c].ret = "OK"]
  /\ stop_done' = FALSE
  /\ UNCHANGED <<hubVars, envVars, now, running_, stop_requested_, mutex_, cacheVars,
                 deadlineVars, persistVars, scall, gcall, err_sink, log_snapshot, sdVars,
                 histVars, stop_pending>>

\* ---------------------------------------------------------------- threads()

\* the owner mutex_ records while worker w holds it (get_latest callers are 1..)
WorkerOwner(w) == Cardinality(Readers) + w

\* mutant: the loop of threads() runs over the Hub's table instead of the cache layout
AfterEntry_hub_count(w) ==
  IF worker[w].i + 1 <= registered_count(slots)
  THEN [pc |-> "read", i |-> worker[w].i + 1, k |-> 0, v |-> 0]
  ELSE [pc |-> "log", i |-> 0, k |-> 0, v |-> 0]

\* mutant: the for loop looks at stop_requested_ after every entry and leaves the
\* iteration when it is set
AfterEntry_stop_aware(w) ==
  IF stop_requested_ # 0 THEN [pc |-> "check", i |-> 0, k |-> 0, v |-> 0]
  ELSE IF worker[w].i + 1 <= cache_count_
  THEN [pc |-> "read", i |-> worker[w].i + 1, k |-> 0, v |-> 0]
  ELSE [pc |-> "log", i |-> 0, k |-> 0, v |-> 0]

\* the loop header `i < cache_count_` after entry i: the next entry, or the log step
AfterEntry(w) ==
  IF worker[w].i + 1 <= cache_count_
  THEN [pc |-> "read", i |-> worker[w].i + 1, k |-> 0, v |-> 0]
  ELSE [pc |-> "log", i |-> 0, k |-> 0, v |-> 0]

\* threads(): log "starting", first deadlines
WorkerStart(w) ==
  /\ worker[w].pc = "start"
  /\ next_log_ms_' = now + kLogPeriodMs
  /\ next_persist_ms_' = now + kPersistPeriodMs
  /\ worker' = [worker EXCEPT ![w].pc = "check"]
  /\ UNCHANGED <<hubVars, envVars, now, flagVars, mutex_, cacheVars, persistVars, callVars,
                 err_sink, log_snapshot, sdVars, histVars, stopHist>>

\* threads(): while (atomic_get(&stop_requested_) == 0)
WorkerCheck(w) ==
  /\ worker[w].pc = "check"
  /\ worker' = [worker EXCEPT ![w] =
       IF stop_requested_ # 0 THEN [pc |-> "exit1", i |-> 0, k |-> 0, v |-> 0]
       ELSE IF cache_count_ >= 1 THEN [pc |-> "read", i |-> 1, k |-> 0, v |-> 0]
       ELSE [pc |-> "log", i |-> 0, k |-> 0, v |-> 0]]
  /\ UNCHANGED <<hubVars, envVars, now, flagVars, mutex_, cacheVars, deadlineVars,
                 persistVars, callVars, err_sink, log_snapshot, sdVars, histVars,
                 stopHist>>

\* mutant: a failed read leaves the for loop
AfterFailedEntry_break(w) == [pc |-> "log", i |-> 0, k |-> 0, v |-> 0]

\* threads(): the loop goes on with the next entry after a failed read
AfterFailedEntry(w) == AfterEntry(w)

\* threads(): the else branch of the loop body for entry i, read returned ret < 0
ReadFailed(w) ==
  LET i == worker[w].i
      n == cache_[i].error_streak + 1
  IN /\ cache_' = [cache_ EXCEPT ![i] = entry_after_failure(@)]
     /\ err_sink' = [err_sink EXCEPT ![i] = IF ShouldLogFailure(n) THEN @ \cup {n} ELSE @]
     /\ hist' = [hist EXCEPT ![i] = HistAfter(@, FALSE)]
     /\ worker' = [worker EXCEPT ![w] = AfterFailedEntry(w)]
     /\ UNCHANGED <<produced, last_good>>

\* threads(): sensor_hub_.read(cache_[i].type, cache_[i].data, cache_[i].sample_size),
\* up to the driver's first store; the device fails (0) or delivers a measurement,
\* one of `outcomes`
WorkerRead(w, outcomes) ==
  /\ worker[w].pc = "read"
  /\ LET i == worker[w].i
         r == hub_read_enter(slots, drv_ready, dev_ready, cache_[i].type,
                             cache_[i].sample_size)
     IN /\ slots' = r.slots
        /\ drv_ready' = r.ready
        /\ IF r.ret # "OK" THEN ReadFailed(w)
           ELSE \E outcome \in outcomes :
                  IF outcome = 0 THEN ReadFailed(w)
                  ELSE /\ worker' = [worker EXCEPT ![w] =
                                       [pc |-> "store", i |-> i, k |-> 1, v |-> outcome]]
                       /\ produced' = [produced EXCEPT ![cache_[i].type] = @ \cup {outcome}]
                       /\ UNCHANGED <<cache_, err_sink, hist, last_good>>
  /\ UNCHANGED <<hub_call, envVars, now, flagVars, mutex_, cache_count_, deadlineVars,
                 persistVars, callVars, log_snapshot, sdVars, stopHist>>

\* the driver's typed read(): one store into the buffer it was handed, cache_[i].data
WorkerStore(w) ==
  /\ worker[w].pc = "store"
  /\ LET i == worker[w].i
         k == worker[w].k
         t == cache_[i].type
     IN /\ cache_' = [cache_ EXCEPT ![i].data = driver_store(@, t, k, worker[w].v)]
        /\ worker' = [worker EXCEPT ![w] =
             IF k < DriverFields(t) THEN [@ EXCEPT !.k = k + 1] ELSE [@ EXCEPT !.pc = "mark", !.k = 0]]
  /\ UNCHANGED <<hubVars, envVars, now, flagVars, mutex_, cache_count_, deadlineVars,
                 persistVars, callVars, err_sink, log_snapshot, sdVars, histVars,
                 stopHist>>

\* threads(): read returned 0: k_mutex_lock(&mutex_, K_FOREVER)
WorkerMark(w) ==
  /\ worker[w].pc = "mark"
  /\ mutex_ = 0
  /\ mutex_' = WorkerOwner(w)
  /\ worker' = [worker EXCEPT ![w].pc = "marked"]
  /\ UNCHANGED <<hubVars, envVars, now, flagVars, cacheVars, deadlineVars, persistVars,
                 callVars, err_sink, log_snapshot, sdVars, histVars, stopHist>>

\* threads(): valid = true, k_mutex_unlock(&mutex_), error_streak = 0
WorkerMarked(w) ==
  /\ worker[w].pc = "marked"
  /\ LET i == worker[w].i IN
     /\ cache_' = [cache_ EXCEPT ![i] = entry_after_success(@)]
     /\ err_sink' = [err_sink EXCEPT ![i] = {}]
     /\ hist' = [hist EXCEPT ![i] = HistAfter(@, TRUE)]
     /\ last_good' = [last_good EXCEPT ![i] = SampleOf(cache_[i].type, worker[w].v)]
  /\ mutex_' = mutex_unlock(mutex_, WorkerOwner(w))
  /\ worker' = [worker EXCEPT ![w] = AfterEntry(w)]
  /\ UNCHANGED <<hubVars, envVars, now, flagVars, cache_count_, deadlineVars,
                 persistVars, callVars, log_snapshot, sdVars, produced, stopHist>>

\* mutant: an entry of a type other than the built-in two gets no line
SnapshotLine_known_only(e) ==
  IF e.type = Ina226 THEN (IF e.sample_size >= SizeofIna226Sample THEN <<"INA226">> ELSE <<>>)
  ELSE IF e.type = Aht20 THEN (IF e.sample_size >= SizeofAht20Sample THEN <<"AHT20">> ELSE <<>>)
  ELSE <<>>

\* the line maybe_log_snapshot prints for a valid entry
SnapshotLine(e) ==
  IF e.type = Ina226 THEN (IF e.sample_size >= SizeofIna226Sample THEN <<"INA226">> ELSE <<>>)
  ELSE IF e.type = Aht20 THEN (IF e.sample_size >= SizeofAht20Sample THEN <<"AHT20">> ELSE <<>>)
  ELSE <<"sample updated">>

RECURSIVE SnapshotLines(_, _, _)
SnapshotLines(i, cache, count) ==
  IF i > count THEN <<>>
  ELSE (IF cache[i].valid THEN SnapshotLine(cache[i]) ELSE <<>>)
       \o SnapshotLines(i + 1, cache, count)

\* threads(): maybe_log_snapshot(loop_now_ms): the deadline check; with no entry the
\* loop is empty and the "waiting" line is logged at once
WorkerLog(w) ==
  /\ worker[w].pc = "log"
  /\ IF now < next_log_ms_
     THEN /\ worker' = [worker EXCEPT ![w].pc = "persist"]
          /\ UNCHANGED <<next_log_ms_, log_snapshot>>
     ELSE IF cache_count_ = 0
     THEN /\ log_snapshot' = <<"waiting first valid samples">>
          /\ next_log_ms_' = now + kLogPeriodMs
          /\ worker' = [worker EXCEPT ![w].pc = "persist"]
     ELSE /\ log_snapshot' = <<>>
          /\ next_log_ms_' = next_log_ms_
          /\ worker' = [worker EXCEPT ![w].pc = "log_lock", ![w].i = 1]
  /\ UNCHANGED <<hubVars, envVars, now, flagVars, mutex_, cacheVars, next_persist_ms_,
                 persistVars, callVars, err_sink, sdVars, histVars, stopHist>>

\* maybe_log_snapshot, entry i: k_mutex_lock(&mutex_, K_FOREVER)
WorkerLogLock(w) ==
  /\ worker[w].pc = "log_lock"
  /\ mutex_ = 0
  /\ mutex_' = WorkerOwner(w)
  /\ worker' = [worker EXCEPT ![w].pc = "log_copy"]
  /\ UNCHANGED <<hubVars, envVars, now, flagVars, cacheVars, deadlineVars, persistVars,
                 callVars, err_sink, log_snapshot, sdVars, histVars, stopHist>>

\* maybe_log_snapshot, entry i: the copy of the entry under the lock, k_mutex_unlock.
\* Only this worker writes cache_[i], so the copy equals cache_[i] until the line is
\* printed.
WorkerLogCopy(w) ==
  /\ worker[w].pc = "log_copy"
  /\ mutex_' = mutex_unlock(mutex_, WorkerOwner(w))
  /\ worker' = [worker EXCEPT ![w].pc = "log_emit"]
  /\ UNCHANGED <<hubVars, envVars, now, flagVars, cacheVars, deadlineVars, persistVars,
                 callVars, err_sink, log_snapshot, sdVars, histVars, stopHist>>

\* maybe_log_snapshot, entry i: log_.info of the entry's line; after the last entry
\* the "waiting" line when no entry was valid, and the next deadline
WorkerLogEmit(w) ==
  /\ worker[w].pc = "log_emit"
  /\ LET i == worker[w].i
         line == IF cache_[i].valid THEN SnapshotLine(cache_[i]) ELSE <<>>
     IN IF i < cache_count_
        THEN /\ log_snapshot' = log_snapshot \o line
             /\ next_log_ms_' = next_log_ms_
             /\ worker' = [worker EXCEPT ![w].pc = "log_lock", ![w].i = i + 1]
        ELSE /\ log_snapshot' =
                  IF \E j \in 1..cache_count_ : cache_[j].valid
                  THEN log_snapshot \o line
                  ELSE <<"waiting first valid samples">>
             /\ next_log_ms_' = now + kLogPeriodMs
             /\ worker' = [worker EXCEPT ![w].pc = "persist", ![w].i = 0]
  /\ UNCHANGED <<hubVars, envVars, now, flagVars, mutex_, cacheVars, next_persist_ms_,
                 persistVars, callVars, err_sink, sdVars, histVars, stopHist>>

\* -------------------------------------------------------------- persistence

kHeader == "beijing_time,bus_mv,current_ma,power_mw,temp_mc,rh_mpermille\n"

\* the entry persist_snapshot_to_storage takes a type's sample from: the last valid
\* entry of that type whose size covers the struct, 0 when there is none
PersistSource(cache, count, t) ==
  LET ok == {i \in 1..count : cache[i].valid /\ cache[i].type = t
                              /\ cache[i].sample_size >= DriverSampleSize(t)}
  IN IF ok = {} THEN 0 ELSE CHOOSE i \in ok : \A j \in ok : j <= i

\* mutant: the fields of an absent sample are written as the zeros the local structs
\* are initialised with
CsvRow_zero(cache, ina, aht, rtc) ==
  <<rtc,
    IF ina > 0 THEN cache[ina].data[1] ELSE 0,
    IF ina > 0 THEN cache[ina].data[2] ELSE 0,
    IF ina > 0 THEN cache[ina].data[3] ELSE 0,
    IF aht > 0 THEN cache[aht].data[1] ELSE 0,
    IF aht > 0 THEN cache[aht].data[2] ELSE 0>>

\* the CSV row: the RTC time, then the INA226 and AHT20 fields, -1 for an absent sample
CsvRow(cache, ina, aht, rtc) ==
  <<rtc,
    IF ina > 0 THEN cache[ina].data[1] ELSE -1,
    IF ina > 0 THEN cache[ina].data[2] ELSE -1,
    IF ina > 0 THEN cache[ina].data[3] ELSE -1,
    IF aht > 0 THEN cache[aht].data[1] ELSE -1,
    IF aht > 0 THEN cache[aht].data[2] ELSE -1>>

\* mutant: the first failure of the streak is not logged
ShouldLogStorageFailure_skip_first(n) == n % 10 = 0

\* the throttle of persistence errors: log failure number n of the storage streak?
ShouldLogStorageFailure(n) == n = 1 \/ n % 10 = 0

\* mutant: a failed write leaves persistence enabled
persist_snapshot_to_storage_retry(cache, count, p, writes, last, rtcOk, sdOk, rtc) ==
  LET hdr == [path |-> p.path, kind |-> "header", append |-> FALSE, data |-> kHeader]
      row == [path |-> p.path, kind |-> "row", append |-> TRUE,
              data |-> CsvRow(cache, PersistSource(cache, count, Ina226),
                              PersistSource(cache, count, Aht20), rtc)]
  IN IF ~sdOk
     THEN [p |-> [p EXCEPT !.streak = @ + 1], writes |-> writes, last |-> last,
           calls |-> 1, errs |-> <<"sd persist disabled after header write failure">>]
     ELSE [p |-> [p EXCEPT !.header = TRUE, !.streak = 0],
           writes |-> writes \o (IF p.header THEN <<>> ELSE <<hdr>>) \o <<row>>,
           last |-> last, calls |-> IF p.header THEN 1 ELSE 2, errs |-> <<>>]

\* mutant: the file path is derived from the clock again at every due period
persist_snapshot_to_storage_new_path(cache, count, p0, writes, last, rtcOk, sdOk, rtc) ==
  LET p == [p0 EXCEPT !.path = PathOfRtc(rtc)] IN
  LET ina == PersistSource(cache, count, Ina226)
      aht == PersistSource(cache, count, Aht20)
      keep == [p |-> p, writes |-> writes, last |-> last, calls |-> 0, errs |-> <<>>]
      hdr == [path |-> p.path, kind |-> "header", append |-> FALSE, data |-> kHeader]
      row == [path |-> p.path, kind |-> "row", append |-> TRUE,
              data |-> CsvRow(cache, ina, aht, rtc)]
      n == p.streak + 1
      throttled(msg) == IF ShouldLogStorageFailure(n) THEN <<msg>> ELSE <<>>
  IN IF ~p.enabled THEN keep
     ELSE IF ina = 0 /\ aht = 0 THEN keep
     ELSE IF p.path = NoPath
          THEN [keep EXCEPT !.p.enabled = FALSE, !.errs = <<"persist file path not ready">>]
     ELSE IF ~p.header /\ ~sdOk
          THEN [keep EXCEPT !.p.streak = n, !.p.enabled = FALSE, !.calls = 1,
                            !.errs = throttled("sd write header failed")
                                     \o <<"sd persist disabled after header write failure">>]
     ELSE LET w1 == IF p.header THEN writes ELSE Append(writes, hdr)
              c1 == IF p.header THEN 0 ELSE 1
          IN
          IF ~rtcOk
          THEN [p |-> [p EXCEPT !.header = TRUE, !.streak = n], writes |-> w1,
                last |-> last, calls |-> c1,
                errs |-> throttled("rtc read failed, skip persist")]
          ELSE IF ~sdOk
          THEN [p |-> [p EXCEPT !.header = TRUE, !.streak = n, !.enabled = FALSE],
                writes |-> w1, last |-> CsvRow(cache, ina, aht, rtc), calls |-> c1 + 1,
                errs |-> throttled("sd write sample failed")
                         \o <<"sd persist disabled after sample write failure">>]
          ELSE [p |-> [p EXCEPT !.header = TRUE, !.streak = 0],
                writes |-> Append(w1, row), last |-> CsvRow(cache, ina, aht, rtc),
                calls |-> c1 + 1, errs |-> <<>>]

\* mutant: storage_header_written_ is never set, every due period writes the header
persist_snapshot_to_storage_header_again(cache, count, p, writes, last, rtcOk, sdOk, rtc) ==
  LET ina == PersistSource(cache, count, Ina226)
      aht == PersistSource(cache, count, Aht20)
      keep == [p |-> p, writes |-> writes, last |-> last, calls |-> 0, errs |-> <<>>]
      hdr == [path |-> p.path, kind |-> "header", append |-> FALSE, data |-> kHeader]
      row == [path |-> p.path, kind |-> "row", append |-> TRUE,
              data |-> CsvRow(cache, ina, aht, rtc)]
      n == p.streak + 1
      throttled(msg) == IF ShouldLogStorageFailure(n) THEN <<msg>> ELSE <<>>
  IN IF ~p.enabled THEN keep
     ELSE IF ina = 0 /\ aht = 0 THEN keep
     ELSE IF p.path = NoPath
          THEN [keep EXCEPT !.p.enabled = FALSE, !.errs = <<"persist file path not ready">>]
     ELSE IF ~p.header /\ ~sdOk
          THEN [keep EXCEPT !.p.streak = n, !.p.enabled = FALSE, !.calls = 1,
                            !.errs = throttled("sd write header failed")
                                     \o <<"sd persist disabled after header write failure">>]
     ELSE LET w1 == IF p.header THEN writes ELSE Append(writes, hdr)
              c1 == IF p.header THEN 0 ELSE 1
          IN
          IF ~rtcOk
          THEN [p |-> [p EXCEPT !.header = FALSE, !.streak = n], writes |-> w1,
                last |-> last, calls |-> c1,
                errs |-> throttled("rtc read failed, skip persist")]
          ELSE IF ~sdOk
          THEN [p |-> [p EXCEPT !.header = FALSE, !.streak = n, !.enabled = FALSE],
                writes |-> w1, last |-> CsvRow(cache, ina, aht, rtc), calls |-> c1 + 1,
                errs |-> throttled("sd write sample failed")
                         \o <<"sd persist disabled after sample write failure">>]
          ELSE [p |-> [p EXCEPT !.header = FALSE, !.streak = 0],
                writes |-> Append(w1, row), last |-> CsvRow(cache, ina, aht, rtc),
                calls |-> c1 + 1, errs |-> <<>>]

\* mutant: a failed RTC read disables persistence like a failed write
persist_snapshot_to_storage_rtc_latches(cache, count, p, writes, last, rtcOk, sdOk, rtc) ==
  LET ina == PersistSource(cache, count, Ina226)
      aht == PersistSource(cache, count, Aht20)
      keep == [p |-> p, writes |-> writes, last |-> last, calls |-> 0, errs |-> <<>>]
      hdr == [path |-> p.path, kind |-> "header", append |-> FALSE, data |-> kHeader]
      row == [path |-> p.path, kind |-> "row", append |-> TRUE,
              data |-> CsvRow(cache, ina, aht, rtc)]
      n == p.streak + 1
      throttled(msg) == IF ShouldLogStorageFailure(n) THEN <<msg>> ELSE <<>>
  IN IF ~p.enabled THEN keep
     ELSE IF ina = 0 /\ aht = 0 THEN keep
     ELSE IF p.path = NoPath
          THEN [keep EXCEPT !.p.enabled = FALSE, !.errs = <<"persist file path not ready">>]
     ELSE IF ~p.header /\ ~sdOk
          THEN [keep EXCEPT !.p.streak = n, !.p.enabled = FALSE, !.calls = 1,
                            !.errs = throttled("sd write header failed")
                                     \o <<"sd persist disabled after header write failure">>]
     ELSE LET w1 == IF p.header THEN writes ELSE Append(writes, hdr)
              c1 == IF p.header THEN 0 ELSE 1
          IN
          IF ~rtcOk
          THEN [p |-> [p EXCEPT !.header = TRUE, !.streak = n, !.enabled = FALSE],
                writes |-> w1,
                last |-> last, calls |-> c1,
                errs |-> throttled("rtc read failed, skip persist")]
          ELSE IF ~sdOk
          THEN [p |-> [p EXCEPT !.header = TRUE, !.streak = n, !.enabled = FALSE],
                writes |-> w1, last |-> CsvRow(cache, ina, aht, rtc), calls |-> c1 + 1,
                errs |-> throttled("sd write sample failed")
                         \o <<"sd persist disabled after sample write failure">>]
          ELSE [p |-> [p EXCEPT !.header = TRUE, !.streak = 0],
                writes |-> Append(w1, row), last |-> CsvRow(cache, ina, aht, rtc),
                calls |-> c1 + 1, errs |-> <<>>]

\* mutant: a due period with no valid INA226 or AHT20 sample writes a row of sentinels
persist_snapshot_to_storage_blank_row(cache, count, p, writes, last, rtcOk, sdOk, rtc) ==
  LET ina == PersistSource(cache, count, Ina226)
      aht == PersistSource(cache, count, Aht20)
      keep == [p |-> p, writes |-> writes, last |-> last, calls |-> 0, errs |-> <<>>]
      hdr == [path |-> p.path, kind |-> "header", append |-> FALSE, data |-> kHeader]
      row == [path |-> p.path, kind |-> "row", append |-> TRUE,
              data |-> CsvRow(cache, ina, aht, rtc)]
      n == p.streak + 1
      throttled(msg) == IF ShouldLogStorageFailure(n) THEN <<msg>> ELSE <<>>
  IN IF ~p.enabled THEN keep
     ELSE IF p.path = NoPath
          THEN [keep EXCEPT !.p.enabled = FALSE, !.errs = <<"persist file path not ready">>]
     ELSE IF ~p.header /\ ~sdOk
          THEN [keep EXCEPT !.p.streak = n, !.p.enabled = FALSE, !.calls = 1,
                            !.errs = throttled("sd write header failed")
                                     \o <<"sd persist disabled after header write failure">>]
     ELSE LET w1 == IF p.header THEN writes ELSE Append(writes, hdr)
              c1 == IF p.header THEN 0 ELSE 1
          IN
          IF ~rtcOk
          THEN [p |-> [p EXCEPT !.header = TRUE, !.streak = n], writes |-> w1,
                last |-> last, calls |-> c1,
                errs |-> throttled("rtc read failed, skip persist")]
          ELSE IF ~sdOk
          THEN [p |-> [p EXCEPT !.header = TRUE, !.streak = n, !.enabled = FALSE],
                writes |-> w1, last |-> CsvRow(cache, ina, aht, rtc), calls |-> c1 + 1,
                errs |-> throttled("sd write sample failed")
                         \o <<"sd persist disabled after sample write failure">>]
          ELSE [p |-> [p EXCEPT !.header = TRUE, !.streak = 0],
                writes |-> Append(w1, row), last |-> CsvRow(cache, ina, aht, rtc),
                calls |-> c1 + 1, errs |-> <<>>]

\* persist_snapshot_to_storage: the persistence state and the storage afterwards, the
\* number of write_file calls made and the log_.error calls, in order.  `writes` lists
\* the write_file calls that succeeded: path, append flag and the bytes handed over
\* (the header text, or the row as its six column values).
persist_snapshot_to_storage(cache, count, p, writes, last, rtcOk, sdOk, rtc) ==
  LET ina == PersistSource(cache, count, Ina226)
      aht == PersistSource(cache, count, Aht20)
      keep == [p |-> p, writes |-> writes, last |-> last, calls |-> 0, errs |-> <<>>]
      hdr == [path |-> p.path, kind |-> "header", append |-> FALSE, data |-> kHeader]
      row == [path |-> p.path, kind |-> "row", append |-> TRUE,
              data |-> CsvRow(cache, ina, aht, rtc)]
      n == p.streak + 1
      throttled(msg) == IF ShouldLogStorageFailure(n) THEN <<msg>> ELSE <<>>
  IN IF ~p.enabled THEN keep
     ELSE IF ina = 0 /\ aht = 0 THEN keep
     ELSE IF p.path = NoPath
          THEN [keep EXCEPT !.p.enabled = FALSE, !.errs = <<"persist file path not ready">>]
     ELSE IF ~p.header /\ ~sdOk
          THEN [keep EXCEPT !.p.streak = n, !.p.enabled = FALSE, !.calls = 1,
                            !.errs = throttled("sd write header failed")
                                     \o <<"sd persist disabled after header write failure">>]
     ELSE LET w1 == IF p.header THEN writes ELSE Append(writes, hdr)
              c1 == IF p.header THEN 0 ELSE 1
          IN
          IF ~rtcOk
          THEN [p |-> [p EXCEPT !.header = TRUE, !.streak = n], writes |-> w1,
                last |-> last, calls |-> c1,
                errs |-> throttled("rtc read failed, skip persist")]
          ELSE IF ~sdOk
          THEN [p |-> [p EXCEPT !.header = TRUE, !.streak = n, !.enabled = FALSE],
                writes |-> w1, last |-> CsvRow(cache, ina, aht, rtc), calls |-> c1 + 1,
                errs |-> throttled("sd write sample failed")
                         \o <<"sd persist disabled after sample write failure">>]
          ELSE [p |-> [p EXCEPT !.header = TRUE, !.streak = 0],
                writes |-> Append(w1, row), last |-> CsvRow(cache, ina, aht, rtc),
                calls |-> c1 + 1, errs |-> <<>>]

\* mutant: a due period that finds persistence disabled leaves the deadline where it is
WorkerPersist_no_advance(w) ==
  /\ worker[w].pc = "persist"
  /\ IF now < next_persist_ms_ \/ ~storage_persist_enabled_
     THEN /\ worker' = [worker EXCEPT ![w].pc = "sleep"]
          /\ next_persist_ms_' = next_persist_ms_
     ELSE IF cache_count_ = 0
     THEN /\ worker' = [worker EXCEPT ![w].pc = "sleep"]
          /\ next_persist_ms_' = now + kPersistPeriodMs
     ELSE /\ worker' = [worker EXCEPT ![w].pc = "persist_lock", ![w].i = 1]
          /\ next_persist_ms_' = next_persist_ms_
  /\ UNCHANGED <<hubVars, envVars, now, flagVars, mutex_, cacheVars, next_log_ms_,
                 persistVars, callVars, err_sink, log_snapshot, sdVars, histVars,
                 stopHist>>

\* threads(): maybe_persist_snapshot(loop_now_ms): the deadline check, and
\* persist_snapshot_to_storage up to its loop over the entries; a call that returns
\* at once (persistence disabled, or no entry) only advances the deadline
WorkerPersist(w) ==
  /\ worker[w].pc = "persist"
  /\ IF now < next_persist_ms_
     THEN /\ worker' = [worker EXCEPT ![w].pc = "sleep"]
          /\ next_persist_ms_' = next_persist_ms_
     ELSE IF ~storage_persist_enabled_ \/ cache_count_ = 0
     THEN /\ worker' = [worker EXCEPT ![w].pc = "sleep"]
          /\ next_persist_ms_' = now + kPersistPeriodMs
     ELSE /\ worker' = [worker EXCEPT ![w].pc = "persist_lock", ![w].i = 1]
          /\ next_persist_ms_' = next_persist_ms_
  /\ UNCHANGED <<hubVars, envVars, now, flagVars, mutex_, cacheVars, next_log_ms_,
                 persistVars, callVars, err_sink, log_snapshot, sdVars, histVars,
                 stopHist>>

\* persist_snapshot_to_storage, entry i: k_mutex_lock(&mutex_, K_FOREVER)
WorkerPersistLock(w) ==
  /\ worker[w].pc = "persist_lock"
  /\ mutex_ = 0
  /\ mutex_' = WorkerOwner(w)
  /\ worker' = [worker EXCEPT ![w].pc = "persist_copy"]
  /\ UNCHANGED <<hubVars, envVars, now, flagVars, cacheVars, deadlineVars, persistVars,
                 callVars, err_sink, log_snapshot, sdVars, histVars, stopHist>>

\* persist_snapshot_to_storage, entry i: the copy of the entry under the lock,
\* k_mutex_unlock.  Only this worker writes cache_[i], so the copy equals cache_[i]
\* until the row is formatted.
WorkerPersistCopy(w) ==
  /\ worker[w].pc = "persist_copy"
  /\ mutex_' = mutex_unlock(mutex_, WorkerOwner(w))
  /\ worker' = [worker EXCEPT ![w] =
       IF worker[w].i < cache_count_ THEN [@ EXCEPT !.pc = "persist_lock", !.i = @ + 1]
       ELSE [@ EXCEPT !.pc = "persist_write", !.i = 0]]
  /\ UNCHANGED <<hubVars, envVars, now, flagVars, cacheVars, deadlineVars, persistVars,
                 callVars, err_sink, log_snapshot, sdVars, histVars, stopHist>>

\* persist_snapshot_to_storage after the loop: header, RTC time, row; then
\* maybe_persist_snapshot advances the deadline
WorkerPersistWrite(w) ==
  /\ worker[w].pc = "persist_write"
  /\ LET r == persist_snapshot_to_storage(cache_, cache_count_,
                [enabled |-> storage_persist_enabled_,
                 header |-> storage_header_written_,
                 streak |-> storage_error_streak_,
                 path |-> persist_file_path_],
                sd_writes, sd_last, rtc_ok, sd_ok, now)
     IN /\ storage_persist_enabled_' = r.p.enabled
        /\ storage_header_written_' = r.p.header
        /\ storage_error_streak_' = r.p.streak
        /\ persist_file_path_' = r.p.path
        /\ sd_writes' = r.writes
        /\ sd_last' = r.last
        /\ sd_calls' = sd_calls + r.calls
        /\ persist_errs' = persist_errs \o r.errs
  /\ next_persist_ms_' = now + kPersistPeriodMs
  /\ worker' = [worker EXCEPT ![w].pc = "sleep"]
  /\ UNCHANGED <<hubVars, envVars, now, flagVars, mutex_, cacheVars, next_log_ms_, callVars,
                 err_sink, log_snapshot, histVars, stopHist>>

\* mutant: with persistence disabled the worker sleeps two periods
WorkerSleep_backoff(w, rounds) ==
  /\ worker[w].pc = "sleep"
  /\ now < rounds * kSamplePeriodMs
  /\ now' = now + (IF storage_persist_enabled_ THEN 1 ELSE 2) * kSamplePeriodMs
  /\ worker' = [worker EXCEPT ![w].pc = "check"]
  /\ UNCHANGED <<hubVars, envVars, flagVars, mutex_, cacheVars, deadlineVars, persistVars,
                 callVars, err_sink, log_snapshot, sdVars, histVars, stopHist>>

\* threads(): k_sleep(K_MSEC(kSamplePeriodMs)) runs to its timeout; the clock of the
\* model stops after `rounds` periods
WorkerSleep(w, rounds) ==
  /\ worker[w].pc = "sleep"
  /\ now < rounds * kSamplePeriodMs
  /\ now' = now + kSamplePeriodMs
  /\ worker' = [worker EXCEPT ![w].pc = "check"]
  /\ UNCHANGED <<hubVars, envVars, flagVars, mutex_, cacheVars, deadlineVars, persistVars,
                 callVars, err_sink, log_snapshot, sdVars, histVars, stopHist>>

\* threads(): atomic_set(&running_, 0) after the loop
WorkerExit1(w) ==
  /\ worker[w].pc = "exit1"
  /\ running_' = 0
  /\ stop_pending' = FALSE
  /\ worker' = [worker EXCEPT ![w].pc = "exit2"]
  /\ UNCHANGED <<hubVars, envVars, now, stop_requested_, thread_id_, mutex_, cacheVars,
                 deadlineVars, persistVars, callVars, err_sink, log_snapshot, sdVars,
                 histVars, stop_done>>

\* threads(): thread_id_ = nullptr; log "stopped"; the thread ends
WorkerExit2(w) ==
  /\ worker[w].pc = "exit2"
  /\ thread_id_' = 0
  /\ worker' = [worker EXCEPT ![w] = DeadWorker]
  /\ UNCHANGED <<hubVars, envVars, now, running_, stop_requested_, mutex_, cacheVars,
                 deadlineVars, persistVars, callVars, err_sink, log_snapshot, sdVars,
                 histVars, stopHist>>

\* ------------------------------------------------------------------ stop()

\* stop(): if (atomic_get(&running_) == 0) return
StopCheck(s) ==
  /\ scall[s] = "idle"
  /\ scall' = [scall EXCEPT ![s] = IF running_ = 0 THEN "idle" ELSE "set"]
  /\ UNCHANGED <<hubVars, envVars, now, flagVars, mutex_, cacheVars, deadlineVars,
                 persistVars, worker, rcall, gcall, err_sink, log_snapshot, sdVars,
                 histVars, stopHist>>

\* stop(): atomic_set(&stop_requested_, 1)
StopSet(s) ==
  /\ scall[s] = "set"
  /\ stop_requested_' = 1
  /\ stop_pending' = (stop_pending \/ running_ = 1)
  /\ scall' = [scall EXCEPT ![s] = "wake"]
  /\ rcall' = [c \in RunCallers |-> [rcall[c] EXCEPT !.after_stop = FALSE]]
  /\ UNCHANGED <<hubVars, envVars, now, running_, thread_id_, mutex_, cacheVars,
                 deadlineVars, persistVars, worker, gcall, err_sink, log_snapshot,
                 sdVars, histVars, stop_done>>

\* stop(): if (thread_id_ != nullptr) k_wakeup(thread_id_): a sleeping worker returns
\* from k_sleep at once; stop() returns
StopWake(s) ==
  /\ scall[s] = "wake"
  /\ worker' = IF thread_id_ # 0 /\ worker[thread_id_].pc = "sleep"
               THEN [worker EXCEPT ![thread_id_].pc = "check"]
               ELSE worker
  /\ scall' = [scall EXCEPT ![s] = "idle"]
  /\ stop_done' = TRUE
  /\ UNCHANGED <<hubVars, envVars, now, flagVars, mutex_, cacheVars, deadlineVars,
                 persistVars, rcall, gcall, err_sink, log_snapshot, sdVars, histVars,
                 stop_pending>>

\* -------------------------------------------------------------- get_latest()

UntouchedBuf == [k \in Fields |-> Untouched]
IdleGet == [pc |-> "idle", type |-> Ina226, out_size |-> 0, out |-> UntouchedBuf,
            ret |-> "none", idx |-> 0, k |-> 0]

\* get_latest(type, out, out_size) is called: out == nullptr returns -EINVAL
GetCall(g, t, size, null) ==
  /\ gcall[g].pc = "idle"
  /\ gcall' = [gcall EXCEPT ![g] =
       IF null THEN [IdleGet EXCEPT !.type = t, !.out_size = size, !.ret = "EINVAL"]
       ELSE [IdleGet EXCEPT !.pc = "lock", !.type = t, !.out_size = size, !.ret = "pending"]]
  /\ UNCHANGED <<hubVars, envVars, now, flagVars, mutex_, cacheVars, deadlineVars,
                 persistVars, worker, rcall, scall, err_sink, log_snapshot, sdVars,
                 histVars, stopHist>>

\* get_latest: k_mutex_lock(&mutex_, K_FOREVER)
GetLock(g) ==
  /\ gcall[g].pc = "lock"
  /\ mutex_ = 0
  /\ mutex_' = g
  /\ gcall' = [gcall EXCEPT ![g].pc = "check"]
  /\ UNCHANGED <<hubVars, envVars, now, flagVars, cacheVars, deadlineVars, persistVars,
                 worker, rcall, scall, err_sink, log_snapshot, sdVars, histVars,
                 stopHist>>

\* get_latest: find_cache_index and the three checks; an error unlocks and returns
GetCheck(g) ==
  /\ gcall[g].pc = "check"
  /\ LET r == get_latest_check(cache_, cache_count_, gcall[g].type, gcall[g].out_size) IN
     IF r # "OK"
     THEN /\ gcall' = [gcall EXCEPT ![g].pc = "idle", ![g].ret = r]
          /\ mutex_' = mutex_unlock(mutex_, g)
     ELSE /\ gcall' = [gcall EXCEPT ![g].pc = "copy", ![g].k = 1,
                          ![g].idx = find_cache_index(cache_, cache_count_, gcall[g].type)]
          /\ mutex_' = mutex_
  /\ UNCHANGED <<hubVars, envVars, now, flagVars, cacheVars, deadlineVars, persistVars,
                 worker, rcall, scall, err_sink, log_snapshot, sdVars, histVars,
                 stopHist>>

\* the stores memcpy(out, cache_[idx].data, cache_[idx].sample_size) performs: the
\* fields of the cached type's layout
CopyFields(e) ==
  IF e.sample_size = SizeofIna226Sample THEN DriverFields(Ina226)
  ELSE IF e.sample_size = SizeofAht20Sample THEN DriverFields(Aht20)
  ELSE 0

\* get_latest: memcpy, one field per step; after the last one unlock and return 0
GetCopy(g) ==
  /\ gcall[g].pc = "copy"
  /\ LET e == cache_[gcall[g].idx]
         k == gcall[g].k
     IN IF k < CopyFields(e)
        THEN /\ gcall' = [gcall EXCEPT ![g].out[k] = e.data[k], ![g].k = k + 1]
             /\ mutex_' = mutex_
        ELSE /\ gcall' = [gcall EXCEPT ![g].out[k] = e.data[k], ![g].k = 0,
                             ![g].pc = "idle", ![g].ret = "OK"]
             /\ mutex_' = mutex_unlock(mutex_, g)
  /\ UNCHANGED <<hubVars, envVars, now, flagVars, cacheVars, deadlineVars, persistVars,
                 worker, rcall, scall, err_sink, log_snapshot, sdVars, histVars,
                 stopHist>>

\* ----------------------------------------------------------- specifications

\* the state after construction of the Hub, the drivers and the Service; `sl` is the
\* Hub's table when the Service is built, `dev`, `rtc`, `sd` the environment
InitWith(sl, dev, rtc, sd) ==
  /\ slots = sl
  /\ drv_ready = [t \in HubTags |-> FALSE]
  /\ hub_call = NoHubCall
  /\ dev_ready = dev
  /\ rtc_ok = rtc
  /\ sd_ok = sd
  /\ now = 0
  /\ running_ = 0
  /\ stop_requested_ = 0
  /\ thread_id_ = 0
  /\ mutex_ = 0
  /\ cache_ = [i \in CacheIdx |-> EmptyEntry]
  /\ cache_count_ = 0
  /\ next_log_ms_ = 0
  /\ next_persist_ms_ = 0
  /\ storage_error_streak_ = 0
  /\ storage_header_written_ = FALSE
  /\ storage_persist_enabled_ = TRUE
  /\ persist_file_path_ = NoPath
  /\ worker = [w \in Workers |-> DeadWorker]
  /\ rcall = [c \in RunCallers |-> IdleRun]
  /\ scall = [s \in StopCallers |-> "idle"]
  /\ gcall = [g \in Readers |-> IdleGet]
  /\ err_sink = NoSink
  /\ log_snapshot = <<>>
  /\ sd_writes = <<>>
  /\ sd_last = <<>>
  /\ sd_calls = 0
  /\ persist_errs = <<>>
  /\ hist = NoHist
  /\ produced = [t \in Types |-> {}]
  /\ last_good = NoGood
  /\ stop_pending = FALSE
  /\ stop_done = FALSE

Slot(t) == [type |-> t, initialized |-> FALSE]
AllReady == [t \in HubTags |-> TRUE]

\* the steps of run() by caller c
RunStep(c, budget) ==
  \/ RunCas(c, budget)
  \/ RunInitAll(c)
  \/ RunMutexInit(c)
  \/ RunRebuild(c)
  \/ RunReset(c)
  \/ RunPath(c)
  \/ RunCreate(c)

\* the steps of threads() by worker w inside its loop
WorkerLoopStep(w, rounds, outcomes) ==
  \/ WorkerStart(w)
  \/ WorkerCheck(w)
  \/ WorkerRead(w, outcomes)
  \/ WorkerStore(w)
  \/ WorkerMark(w)
  \/ WorkerMarked(w)
  \/ WorkerLog(w)
  \/ WorkerPersist(w)
  \/ WorkerSleep(w, rounds)

\* the steps of threads() by worker w inside a due snapshot log or persistence
WorkerReportStep(w) ==
  \/ WorkerLogLock(w)
  \/ WorkerLogCopy(w)
  \/ WorkerLogEmit(w)
  \/ WorkerPersistLock(w)
  \/ WorkerPersistCopy(w)
  \/ WorkerPersistWrite(w)

\* the steps of threads() by worker w
WorkerStep(w, rounds, outcomes) ==
  \/ WorkerLoopStep(w, rounds, outcomes)
  \/ WorkerExit1(w)
  \/ WorkerExit2(w)

StopStep(s) == StopCheck(s) \/ StopSet(s) \/ StopWake(s)

OutSizes == {0, SizeofAht20Sample, SizeofIna226Sample}

GetStep(g) ==
  \/ \E t \in Types, size \in OutSizes, null \in BOOLEAN : GetCall(g, t, size, null)
  \/ GetLock(g)
  \/ GetCheck(g)
  \/ GetCopy(g)

\* Life cycle: a Service on a Hub that holds the INA226 driver; the AHT20 driver is
\* registered once, at any time; one thread calls run(), another calls stop().
Init == InitWith(<<Slot(Ina226)>>, AllReady, TRUE, TRUE)

Next ==
  \/ RunStep(1, 0)
  \/ \E w \in Workers : WorkerStep(w, MaxRoundsLife, {0, 1})
  \/ \E s \in StopCallers : StopStep(s)
  \/ (Aht20 \notin RegisteredTypes(slots) /\ RegisterDriver(Aht20))

Spec == Init /\ [][Next]_vars

BuiltinHub == <<Slot(Ina226), Slot(Aht20)>>

\* Cache: the Service on the global Hub (both built-in drivers registered), started
\* once; a thread calls get_latest with any arguments while the worker samples.
InitCache == InitWith(BuiltinHub, AllReady, TRUE, TRUE)

NextCache ==
  \/ RunStep(1, 1)
  \/ \E w \in Workers : WorkerLoopStep(w, MaxRoundsCache, 0..NumVals)
  \/ \E g \in Readers : GetStep(g)

SpecCache == InitCache /\ [][NextCache]_vars

\* Throttle: the same Service sampling for many periods, every read failing or
\* succeeding as the device decides.
NextThrottle ==
  \/ RunStep(1, 1)
  \/ \E w \in Workers : WorkerLoopStep(w, MaxRoundsThrottle, {0, 1})
  \/ \E w \in Workers : WorkerReportStep(w)

SpecThrottle == InitCache /\ [][NextThrottle]_vars

\* Race: run() is called once by each of two threads on a stopped Service, in any
\* environment (devices ready or not, RTC present or not).
InitRace ==
  \E dev \in [Types -> BOOLEAN], rtc \in BOOLEAN :
    InitWith(BuiltinHub, [t \in HubTags |-> IF t \in Types THEN dev[t] ELSE TRUE], rtc, TRUE)

NextRace ==
  \/ \E c \in RunCallers : RunStep(c, 1)
  \/ \E w \in Workers : WorkerLoopStep(w, MaxRoundsLife, {0, 1})

SpecRace == InitRace /\ [][NextRace]_vars

\* the storage medium starts or stops accepting writes (environment)
StorageChange ==
  /\ sd_ok' = ~sd_ok
  /\ UNCHANGED <<hubVars, dev_ready, rtc_ok, now, flagVars, mutex_, cacheVars,
                 deadlineVars, persistVars, worker, callVars, err_sink, log_snapshot,
                 sdVars, histVars, stopHist>>

\* the RTC starts or stops answering (environment)
RtcChange ==
  /\ rtc_ok' = ~rtc_ok
  /\ UNCHANGED <<hubVars, dev_ready, sd_ok, now, flagVars, mutex_, cacheVars,
                 deadlineVars, persistVars, worker, callVars, err_sink, log_snapshot,
                 sdVars, histVars, stopHist>>

\* Persistence: the Service on the global Hub, started once, sampling past two
\* persistence periods while the storage medium and the RTC come and go; every device
\* read succeeds.
NextPersist ==
  \/ RunStep(1, 1)
  \/ \E w \in Workers : WorkerLoopStep(w, MaxRoundsPersist, 1..NumVals)
  \/ \E w \in Workers : WorkerReportStep(w)
  \/ StorageChange
  \/ RtcChange

SpecPersist == InitCache /\ [][NextPersist]_vars

\* Latch: the same Service, stopped once persistence has latched off and started
\* again; the devices deliver one measurement.
NextLatch ==
  \/ RunStep(1, MaxRunsLatch)
  \/ \E w \in Workers : WorkerStep(w, MaxRoundsPersist, {1})
  \/ \E w \in Workers : WorkerReportStep(w)
  \/ \E s \in StopCallers :
       (~storage_persist_enabled_ /\ StopCheck(s)) \/ StopSet(s) \/ StopWake(s)
  \/ StorageChange
  \/ RtcChange

SpecLatch == InitCache /\ [][NextLatch]_vars

\* Lock: the Service on the global Hub, started once and sampling past its first
\* snapshot log and persistence, every read failing or succeeding as the device
\* decides, while a thread keeps calling get_latest for the INA226 sample.
NextLock ==
  \/ RunStep(1, 1)
  \/ \E w \in Workers : WorkerLoopStep(w, MaxRoundsLock, {0, 1})
  \/ \E w \in Workers : WorkerReportStep(w)
  \/ \E g \in Readers :
       \/ GetCall(g, Ina226, SizeofIna226Sample, FALSE)
       \/ GetLock(g)
       \/ GetCheck(g)
       \/ GetCopy(g)

SpecLock == InitCache /\ [][NextLock]_vars

\* Overlap: a Service on a Hub that holds the INA226 driver; run() is called up to
\* MaxRunsOverlap times by each of two threads and stop() by a third, the RTC coming
\* and going; every device read succeeds.
InitOverlap == \E rtc \in BOOLEAN : InitWith(<<Slot(Ina226)>>, AllReady, rtc, TRUE)

NextOverlap ==
  \/ \E c \in RunCallers : RunStep(c, MaxRunsOverlap)
  \/ \E w \in Workers : WorkerStep(w, MaxRoundsLife, {1})
  \/ \E s \in StopCallers : StopStep(s)
  \/ RtcChange

SpecOverlap == InitOverlap /\ [][NextOverlap]_vars

\* Rows: the Service on the global Hub, started once and sampling past its persistence
\* periods, every read failing or succeeding as the device decides, while the storage
\* medium and the RTC come and go.
NextRows ==
  \/ RunStep(1, 1)
  \/ \E w \in Workers : WorkerLoopStep(w, MaxRoundsRows, {0, 1})
  \/ \E w \in Workers : WorkerReportStep(w)
  \/ StorageChange
  \/ RtcChange

SpecRows == InitCache /\ [][NextRows]_vars

\* Files: the Service on the global Hub, started, stopped once it has called
\* write_file, and started again, each run sampling past a persistence period while
\* the storage medium and the RTC come and go; every device read succeeds.
NextFiles ==
  \/ RunStep(1, MaxRunsFiles)
  \/ \E w \in Workers : WorkerStep(w, MaxRoundsFiles, {1})
  \/ \E w \in Workers : WorkerReportStep(w)
  \/ \E s \in StopCallers : (sd_calls >= 1 /\ StopCheck(s)) \/ StopSet(s) \/ StopWake(s)
  \/ StorageChange
  \/ RtcChange

SpecFiles == InitCache /\ [][NextFiles]_vars

\* Log: a Service on a Hub that holds the built-in drivers and an application's,
\* started once and sampling past two snapshot logs, every read failing or
\* succeeding as the device decides.
InitLog == InitWith(<<Slot(Ina226), Slot(Aht20), Slot(SmallDriver)>>, AllReady, TRUE, TRUE)

NextLog ==
  \/ RunStep(1, 1)
  \/ \E w \in Workers : WorkerLoopStep(w, MaxRoundsLog, {0, 1})
  \/ \E w \in Workers : WorkerLogLock(w) \/ WorkerLogCopy(w) \/ WorkerLogEmit(w)

SpecLog == InitLog /\ [][NextLog]_vars

\* a driver an application defines next to the built-in ones
AppDriver == Aht20 + 1

\* Start-up: the Service on the global Hub, run() called up to MaxRunsStartup times
\* while the sensor devices and the RTC come and go and the application registers a
\* driver of its own; nobody calls stop().
NextStartup ==
  \/ RunStep(1, MaxRunsStartup)
  \/ \E w \in Workers : WorkerLoopStep(w, MaxRoundsLife, {0, 1})
  \/ \E t \in Types : DeviceChange(t)
  \/ RtcChange
  \/ RegisterDriver(AppDriver)

SpecStartup == InitCache /\ [][NextStartup]_vars

\* Hub: an empty Hub; the application registers drivers (a type already in the table,
\* the next free type, or any type once the table is full), calls sensors_init(), and
\* at most one device at a time is not answering.
InitHub == InitWith(<<>>, AllReady, TRUE, TRUE)

NextHub ==
  \/ \E t \in HubTags :
       /\ t <= Len(slots) \/ Len(slots) = kMaxDrivers
       /\ RegisterDriver(t)
  \/ HubInitAll
  \/ \E t \in HubTags : (\A u \in HubTags \ {t} : dev_ready[u]) /\ DeviceChange(t)

SpecHub == InitHub /\ [][NextHub]_vars

\* the buffer sizes a caller of read tries for type t: none, one byte short, enough
ReadSizes(t) == {0, DriverSampleSize(t) - 1, DriverSampleSize(t)}

\* the calls of read tried for type t, <<null buffer, size, device outcome>>: every
\* size with a device that delivers, a failing fetch, a null buffer
ReadInputs(t) ==
  {<<FALSE, size, 1>> : size \in ReadSizes(t)}
    \cup {<<FALSE, DriverSampleSize(t), 0>>, <<TRUE, DriverSampleSize(t), 1>>}

\* Hub use: the same Hub with every operation called by the application: register,
\* init_all, and init(type) and read(type, buffer, size) for the types up to
\* MaxUsedTag, registered or not yet; the devices of those types come and go.
NextHubUse ==
  \/ \E t \in HubTags :
       /\ t <= Len(slots) \/ Len(slots) = kMaxDrivers
       /\ RegisterDriver(t)
  \/ HubInitAll
  \/ \E t \in 0..MaxUsedTag : t <= Len(slots) /\ HubInit(t)
  \/ \E t \in 0..MaxUsedTag : \E in \in ReadInputs(t) :
       t <= Len(slots) /\ HubRead(t, in[1], in[2], in[3])
  \/ \E t \in 0..MaxUsedTag : (\A u \in HubTags \ {t} : dev_ready[u]) /\ DeviceChange(t)

SpecHubUse == InitHub /\ [][NextHubUse]_vars

\* Accessor: the static Hub of platform::sensor_hub(), empty until the first call
\* constructs it; every thread reaches it through the accessor, so the first call
\* comes first.  Then the application registers drivers of its own, initialises all
\* or one, and calls the accessor again, while the devices come and go.
NextAccessor ==
  \/ SensorHubCall
  \/ \E t \in HubTags \ Types :
       /\ hub_call.op # "none"
       /\ t <= Len(slots) \/ Len(slots) = kMaxDrivers
       /\ RegisterDriver(t)
  \/ hub_call.op # "none" /\ HubInitAll
  \/ \E t \in 0..MaxUsedTag : hub_call.op # "none" /\ HubInit(t)
  \/ \E t \in 0..MaxUsedTag : (\A u \in HubTags \ {t} : dev_ready[u]) /\ DeviceChange(t)

SpecAccessor == InitHub /\ [][NextAccessor]_vars

\* ------------------------------------------------------------------- claims

\* worker w is inside the loop of threads(), or about to enter it
Polling(w) == worker[w].pc \notin {"dead", "exit1", "exit2"}

\* worker w has finished the for loop of its current iteration
RoundDone(w) ==
  worker[w].pc \in {"log", "log_lock", "log_copy", "log_emit",
                    "persist", "persist_lock", "persist_copy", "persist_write", "sleep"}

\* a driver read of entry i has begun storing and has not been marked yet
StoreInProgress(i) ==
  \E w \in Workers : worker[w].pc \in {"store", "mark", "marked"} /\ worker[w].i = i

Returned(g) == gcall[g].pc = "idle" /\ gcall[g].ret # "none"

IsCompleteSample(t, buf) ==
  \E v \in produced[t] : \A k \in 1..DriverFields(t) : buf[k] = FieldVal(t, k, v)

\* C1: every successful get_latest(type) returns exactly the complete sample of one
\* single successful Hub.read of that type, never a mix of two samples.
C1_WholeSample ==
  \A g \in Readers :
    (Returned(g) /\ gcall[g].ret = "OK") => IsCompleteSample(gcall[g].type, gcall[g].out)

\* C2: within a run a valid entry never becomes invalid; only the cache rebuild of a
\* run() call clears a valid flag, no read failure does.
C2_ValidMonotonic ==
  [][\A i \in CacheIdx :
       (cache_[i].valid /\ ~cache_'[i].valid) =>
         \E c \in RunCallers : rcall[c].pc = "rebuild" /\ rcall'[c].pc # "rebuild"]_vars

C2_Witness ==
  \E i \in 1..cache_count_ : cache_[i].valid /\ cache_[i].error_streak >= 1

\* C3: after a successful read, consecutive failed reads leave the cached bytes as the
\* last successful read wrote them, and get_latest still serves the entry.
C3_StaleBytesKept ==
  \A i \in 1..cache_count_ :
    (cache_[i].valid /\ cache_[i].error_streak >= 1 /\ ~StoreInProgress(i)) =>
      /\ cache_[i].data = last_good[i]
      /\ get_latest_check(cache_, cache_count_, cache_[i].type, cache_[i].sample_size) = "OK"

C3_Witness ==
  \E i \in 1..cache_count_ :
    /\ cache_[i].valid /\ cache_[i].error_streak >= 2 /\ ~StoreInProgress(i)
    /\ cache_[i].data = SampleOf(cache_[i].type, NumVals)

\* C4: an entry whose reads all succeeded is served from its first read on, an entry
\* whose reads all failed answers NotReady, no failure invalidates an entry, and every
\* entry is polled once in every round whatever the other entries' reads return.
C4_FailureIsolation ==
  /\ \A i \in 1..cache_count_ :
       /\ hist[i].kind = "all_fail" =>
            get_latest_check(cache_, cache_count_, cache_[i].type, kMaxSampleBytes) = "EAGAIN"
       /\ hist[i].kind \in {"all_ok", "mixed"} =>
            get_latest_check(cache_, cache_count_, cache_[i].type, kMaxSampleBytes) = "OK"
  /\ \A w \in Workers :
       RoundDone(w) => \A i \in 1..cache_count_ : hist[i].n = (now \div kSamplePeriodMs) + 1

C4_Witness ==
  \E i, j \in 1..cache_count_ :
    /\ hist[i].kind = "all_ok" /\ hist[i].n >= 20
    /\ hist[j].kind = "all_fail" /\ hist[j].n >= 20

\* what C5 expects of get_latest for type t and size `size` in the current state
ExpectedGet(t, size) ==
  LET idxs == {i \in 1..cache_count_ : cache_[i].type = t} IN
  IF idxs = {} THEN "ENOENT"
  ELSE IF \A i \in idxs : hist[i].kind \in {"none", "all_fail"} THEN "EAGAIN"
  ELSE IF size < DriverSampleSize(t) THEN "ENOSPC"
  ELSE "OK"

\* C5: get_latest with a non-null buffer answers NotFound, else NotReady, else
\* BufferTooSmall, in that order, and an error leaves the caller's buffer unwritten.
C5_ErrorPrecedence ==
  /\ [][\A g \in Readers :
          (gcall[g].pc = "check" /\ gcall'[g].pc # "check") =>
            LET x == ExpectedGet(gcall[g].type, gcall[g].out_size) IN
            IF x = "OK" THEN gcall'[g].pc = "copy"
            ELSE gcall'[g].pc = "idle" /\ gcall'[g].ret = x]_vars
  /\ [](\A g \in Readers :
          gcall[g].ret \in {"ENOENT", "EAGAIN", "ENOSPC"} => gcall[g].out = UntouchedBuf)

C5_Witness ==
  \E g \in Readers :
    /\ Returned(g) /\ gcall[g].ret = "ENOSPC" /\ gcall[g].out = UntouchedBuf
    /\ gcall[g].type = Ina226 /\ gcall[g].out_size = SizeofAht20Sample

\* C6: a successful get_latest had room for the sample and wrote exactly the fields
\* of its type, each a value that type's driver delivered; BufferTooSmall is answered
\* only below the sample size; and once every read of an entry has succeeded, a call
\* with the sample size succeeds and a call below it answers BufferTooSmall.
C6_CopiesOwnSample ==
  /\ \A g \in Readers :
       /\ (Returned(g) /\ gcall[g].ret = "OK") =>
            /\ gcall[g].out_size >= DriverSampleSize(gcall[g].type)
            /\ \A k \in Fields :
                 IF k <= DriverFields(gcall[g].type)
                 THEN \E v \in produced[gcall[g].type] :
                        gcall[g].out[k] = FieldVal(gcall[g].type, k, v)
                 ELSE gcall[g].out[k] = Untouched
       /\ (Returned(g) /\ gcall[g].ret = "ENOSPC") =>
            gcall[g].out_size < DriverSampleSize(gcall[g].type)
  /\ \A i \in 1..cache_count_ :
       hist[i].kind = "all_ok" =>
         /\ get_latest_check(cache_, cache_count_, cache_[i].type,
                             DriverSampleSize(cache_[i].type)) = "OK"
         /\ get_latest_check(cache_, cache_count_, cache_[i].type,
                             DriverSampleSize(cache_[i].type) - 1) = "ENOSPC"

C6_Witness ==
  \E g \in Readers :
    /\ Returned(g) /\ gcall[g].ret = "OK" /\ gcall[g].type = Aht20
    /\ produced[Aht20] = {1}
    /\ \A i \in 1..cache_count_ : hist[i].kind = "all_ok"
    /\ \A k \in 1..DriverFields(Aht20) : gcall[g].out[k] = FieldVal(Aht20, k, 1)
    /\ now = kSamplePeriodMs

\* C7: the error sink is called for the failed reads of an entry exactly at failures
\* 1, 10, 20, ... of a streak, and a successful read resets the streak to 0.
C7_Throttle ==
  \A i \in 1..cache_count_ :
    /\ err_sink[i] = {n \in 1..cache_[i].error_streak : n = 1 \/ n % 10 = 0}
    /\ (hist[i].n > 0 /\ hist[i].last_ok) => cache_[i].error_streak = 0
    /\ (hist[i].n > 0 /\ ~hist[i].last_ok) => cache_[i].error_streak >= 1

C7_Witness ==
  \E i, j \in 1..cache_count_ :
    /\ cache_[i].error_streak = 21 /\ err_sink[i] = {1, 10, 20}
    /\ hist[j].kind = "mixed" /\ cache_[j].error_streak = 1 /\ err_sink[j] = {1}

\* C8: a run() call made after a stop() call has returned, and answered with success,
\* leaves a worker polling a cache that holds every type registered when it was called.
C8_StopThenRunRestarts ==
  \A c \in RunCallers :
    (rcall[c].pc = "idle" /\ rcall[c].ret = "OK" /\ rcall[c].after_stop) =>
      /\ \E w \in Workers : Polling(w)
      /\ \A t \in rcall[c].regs : find_cache_index(cache_, cache_count_, t) > 0

AllReturned == \A c \in RunCallers : rcall[c].pc = "idle" /\ rcall[c].calls = 1

Spawned == {w \in Workers : worker[w].pc # "dead"}

\* C9 as stated: when concurrent run() calls on a stopped service have all returned,
\* exactly one of them did the start-up and spawned a worker, and all returned success.
C9_ExactlyOneStartup ==
  AllReturned =>
    /\ Cardinality(Spawned) = 1
    /\ Cardinality({c \in RunCallers : rcall[c].path = "startup"}) = 1
    /\ \A c \in RunCallers : rcall[c].ret = "OK"

\* C9 amended: at most one call is inside start-up at a time and at most one worker is
\* spawned; a call that finds the running flag set returns success and touches neither
\* the cache, the deadlines nor the persistence state; and when every registered
\* device is ready and the wall clock is available, exactly one call did the start-up
\* and spawned the worker, and every call returned success.
C9_AtMostOneStartup ==
  /\ [](/\ Cardinality({c \in RunCallers : rcall[c].pc # "idle"}) <= 1
        /\ Cardinality(Spawned) <= 1
        /\ \A c \in RunCallers : rcall[c].path = "already" => rcall[c].ret = "OK"
        /\ (AllReturned /\ rtc_ok /\ \A t \in RegisteredTypes(slots) : dev_ready[t]) =>
             /\ Cardinality(Spawned) = 1
             /\ Cardinality({c \in RunCallers : rcall[c].path = "startup"}) = 1
             /\ \A c \in RunCallers : rcall[c].ret = "OK")
  /\ [][\A c \in RunCallers :
          (rcall[c].calls # rcall'[c].calls /\ rcall'[c].path = "already") =>
            UNCHANGED <<cacheVars, deadlineVars, persistVars, mutex_, hubVars,
                        stop_requested_, thread_id_, worker>>]_vars

C9_Witness ==
  /\ AllReturned
  /\ Cardinality(Spawned) = 1
  /\ \E c \in RunCallers : rcall[c].path = "already"
  /\ \E w \in Workers : RoundDone(w)

\* C10: a stop request set while the service is running stays set until the worker
\* has honoured it by clearing the running flag; it is never lost.
C10_StopNeverLost == stop_pending => stop_requested_ = 1

\* a header or row write has failed in this run: its "disabled" line is in the log
DisableLines ==
  {"sd persist disabled after header write failure",
   "sd persist disabled after sample write failure"}

Latched == \E k \in 1..Len(persist_errs) : persist_errs[k] \in DisableLines

IsWriteError(m) == m # "rtc read failed, skip persist"

FirstRun == rcall[1].calls = 1

\* C11: once a header or row write has failed in a run, persistence is disabled;
\* write_file is called only while persistence is enabled; and only the reset of a
\* run() call enables it again.
C11_LatchHolds ==
  /\ [](Latched => ~storage_persist_enabled_)
  /\ [][sd_calls' # sd_calls => storage_persist_enabled_]_vars
  /\ [][(~storage_persist_enabled_ /\ storage_persist_enabled_') =>
          \E c \in RunCallers : rcall[c].pc = "reset" /\ rcall'[c].pc = "path"]_vars

C11_Witness ==
  /\ Latched /\ sd_ok /\ rtc_ok /\ FirstRun
  /\ sd_calls = 1
  /\ now >= 2 * kPersistPeriodMs
  /\ next_persist_ms_ = now + kPersistPeriodMs
  /\ \E w \in Workers : worker[w].pc = "sleep"

C13_SamplingGoesOn ==
  /\ [](\A w \in Workers :
          (~storage_persist_enabled_ /\ FirstRun /\ RoundDone(w)) =>
            \A i \in 1..cache_count_ :
              /\ hist[i].n = (now \div kSamplePeriodMs) + 1
              /\ cache_[i].data = last_good[i]
              /\ get_latest_check(cache_, cache_count_, cache_[i].type,
                                  cache_[i].sample_size) = "OK")
  /\ [](rcall[1].ret = "OK" => \E w \in Workers : Polling(w))

C13_Witness ==
  /\ Latched /\ FirstRun /\ stop_requested_ = 0
  /\ now > 2 * kPersistPeriodMs
  /\ \E w \in Workers : worker[w].pc = "sleep"
  /\ \A i \in 1..cache_count_ :
       hist[i].n = (now \div kSamplePeriodMs) + 1 /\ cache_[i].data = SampleOf(cache_[i].type, NumVals)

\* the error the start-up step run() caller c is at has to return, "OK" when the step
\* has nothing to fail on
StartupError(c) ==
  CASE rcall[c].pc = "init_all" ->
         IF \E i \in 1..Len(slots) :
              ~slots[i].initialized /\ ~drv_ready[slots[i].type] /\ ~dev_ready[slots[i].type]
         THEN "ENODEV" ELSE "OK"
    [] rcall[c].pc = "rebuild" ->
         IF \E i \in 1..Len(slots) : DriverSampleSize(slots[i].type) > kMaxSampleBytes
         THEN "ENOSPC" ELSE "OK"
    [] rcall[c].pc = "path" -> IF rtc_ok THEN "OK" ELSE "ENODEV"
    [] OTHER -> "OK"

\* the last run() of caller c has returned an error
RunFailed(c) == rcall[c].pc = "idle" /\ rcall[c].ret \notin {"none", "OK"}

\* C14: a run() that fails at a start-up step (init_all error, a declared sample size
\* above the per-entry maximum, no wall clock) returns that step's error, spawns no
\* worker and leaves the running flag clear, so that the next run() performs start-up
\* again (and can succeed).
C14_FailedStartup ==
  /\ [][(rcall[1].pc \in {"init_all", "rebuild", "path"} /\ rcall'[1] # rcall[1]) =>
          IF StartupError(1) # "OK"
          THEN /\ rcall'[1].pc = "idle"
               /\ rcall'[1].ret = StartupError(1)
               /\ running_' = 0
               /\ worker' = worker
               /\ thread_id_' = thread_id_
          ELSE rcall'[1].pc # "idle"]_vars
  /\ [](RunFailed(1) => running_ = 0 /\ \A w \in Workers : worker[w].pc = "dead")
  /\ [][(RunFailed(1) /\ rcall'[1] # rcall[1]) =>
          rcall'[1].pc = "init_all" /\ rcall'[1].path = "startup"]_vars

C14_Witness ==
  /\ rcall[1].calls = 2 /\ rcall[1].path = "startup" /\ rcall[1].ret = "OK"
  /\ rcall[1].pc = "idle"
  /\ \E w \in Workers : RoundDone(w)

\* the types the cache layout holds
CachedTypes == {cache_[i].type : i \in 1..cache_count_}

\* the layout of the cache: the type and size of each entry in use
CacheLayout == [i \in 1..cache_count_ |-> <<cache_[i].type, cache_[i].sample_size>>]

\* C15: while a worker is running the set of cached types and the entry count never
\* change; a driver registered after run() is never polled by that worker, and
\* get_latest for its type returns NotFound until the next run().
C15_FrozenLayout ==
  /\ [][(\E w \in Workers : Polling(w)) =>
          /\ cache_count_' = cache_count_
          /\ CacheLayout' = CacheLayout]_vars
  /\ [](\A w \in Workers :
          worker[w].pc \in {"read", "store", "mark", "marked"} =>
            worker[w].i \in 1..cache_count_)
  /\ [][\A t \in Types : produced'[t] # produced[t] => t \in CachedTypes]_vars
  /\ [](\A i \in CacheIdx : i > cache_count_ => hist[i].n = 0)
  /\ []((\E w \in Workers : Polling(w)) =>
          \A t \in RegisteredTypes(slots) \ CachedTypes :
            get_latest_check(cache_, cache_count_, t, kMaxSampleBytes) = "ENOENT")

C15_Witness ==
  /\ rcall[1].pc = "idle" /\ rcall[1].ret = "OK"
  /\ RegisteredTypes(slots) = {Ina226, Aht20}
  /\ CachedTypes = {Ina226}
  /\ produced[Aht20] = {}
  /\ \E w \in Workers : RoundDone(w) /\ hist[1].n >= 1

\* worker w holds the cache lock
HoldsLock(w) == mutex_ = WorkerOwner(w)

WorkerOwners == {WorkerOwner(w) : w \in Workers}

\* C16: the worker never holds the cache lock while it is inside Hub.read, a Storage
\* write or a logger call: it holds the lock only across the flag update after a read
\* and across the copy of one entry, and its next step releases it, so a get_latest
\* caller waits for one such step at most.
C16_LockScope ==
  /\ [](\A w \in Workers :
          HoldsLock(w) => worker[w].pc \in {"marked", "log_copy", "persist_copy"})
  /\ [][\A w \in Workers : (HoldsLock(w) /\ worker'[w] # worker[w]) => mutex_' = 0]_vars
  /\ [][(\/ \E w \in Workers : (worker[w].pc \in {"read", "store"} /\ worker'[w] # worker[w])
          \/ \E i \in CacheIdx : (err_sink'[i] \ err_sink[i]) # {}
          \/ (log_snapshot' # log_snapshot /\ log_snapshot' # <<>>)
          \/ Len(persist_errs') > Len(persist_errs)
          \/ sd_calls' > sd_calls)
          => (mutex_ \notin WorkerOwners /\ mutex_' \notin WorkerOwners)]_vars

C16_Witness ==
  /\ \E g \in Readers : gcall[g].pc = "lock"
  /\ \E w \in Workers : HoldsLock(w) /\ worker[w].pc = "marked"
  /\ sd_calls >= 1
  /\ log_snapshot # <<>>
  /\ \E i \in CacheIdx : err_sink[i] # {}

\* the threads inside a Hub operation: run() callers from init_all to the end of the
\* registration snapshot, workers inside Hub.read
RunInHub == {c \in RunCallers : rcall[c].pc \in {"init_all", "mutex_init", "rebuild"}}

WorkerInHub == {w \in Workers : worker[w].pc \in {"read", "store"}}

\* C17: no two threads of one Service are inside Hub operations at the same time:
\* run()'s init_all and registration snapshot never overlap a worker's Hub.read (nor
\* another run()'s, nor two workers' reads), under any interleaving of run(), stop()
\* and the worker.
C17_HubSerialized == Cardinality(RunInHub) + Cardinality(WorkerInHub) <= 1

C17_Witness ==
  /\ \E c \in RunCallers : rcall[c].pc = "rebuild" /\ rcall[c].calls = 2
  /\ \E c \in RunCallers : rcall[c].pc = "idle" /\ rcall[c].path = "already"
  /\ \E w \in Workers : worker[w].pc = "exit2"
  /\ \E s \in StopCallers : scall[s] # "idle"

\* this step is a register_driver call for type t
IsRegisterStep(t) ==
  /\ hub_call'.op = "register_driver"
  /\ hub_call'.type = t
  /\ dev_ready' = dev_ready

\* C18: register_driver for a type already in the table returns AlreadyRegistered
\* (-EALREADY) and leaves the table unchanged (count, order, entries, initialized
\* flags); the table holds one entry per type.
C18_DuplicateRejected ==
  /\ [][\A t \in RegisteredTypes(slots) :
          IsRegisterStep(t) =>
            /\ hub_call'.ret = "EALREADY"
            /\ slots' = slots
            /\ drv_ready' = drv_ready]_vars
  /\ [](\A i, j \in 1..Len(slots) : slots[i].type = slots[j].type => i = j)

C18_Witness ==
  /\ hub_call.op = "register_driver" /\ hub_call.ret = "EALREADY"
  /\ Len(slots) = kMaxDrivers
  /\ hub_call.type = slots[kMaxDrivers].type
  /\ slots[1].initialized /\ ~slots[kMaxDrivers].initialized

\* C19: registering drivers of pairwise distinct types succeeds for the first 8
\* calls (the driver is appended, not initialised) and returns CapacityExceeded
\* (-ENOSPC) for the 9th and every later one, which leave the table unchanged.
C19_Capacity ==
  /\ [][\A t \in HubTags \ RegisteredTypes(slots) :
          IsRegisterStep(t) =>
            IF Len(slots) < kMaxDrivers
            THEN /\ hub_call'.ret = "OK"
                 /\ slots' = Append(slots, [type |-> t, initialized |-> FALSE])
                 /\ drv_ready' = drv_ready
            ELSE /\ hub_call'.ret = "ENOSPC"
                 /\ slots' = slots
                 /\ drv_ready' = drv_ready]_vars
  /\ [](Len(slots) <= kMaxDrivers)

C19_Witness ==
  /\ hub_call.op = "register_driver" /\ hub_call.ret = "ENOSPC"
  /\ hub_call.type = kMaxDrivers + 1
  /\ Len(slots) = kMaxDrivers
  /\ Cardinality(RegisteredTypes(slots)) = kMaxDrivers

\* the slots init_all has to initialise, and those among them whose driver init fails
Uninitialised == {i \in 1..Len(slots) : ~slots[i].initialized}

InitFails == {i \in Uninitialised : ~drv_ready[slots[i].type] /\ ~dev_ready[slots[i].type]}

\* the elements of a sequence
Range(s) == {s[k] : k \in 1..Len(s)}

\* C20: when init_all runs over the uninitialised slots and the init of one of them
\* fails, it returns that error, the uninitialised slots before it are marked
\* initialised, the failing one is not, and the init of the later ones is not called;
\* no init_all ever calls the driver init of a slot already marked initialised.
C20_InitAllStops ==
  [][hub_call'.op = "init_all" /\ dev_ready' = dev_ready =>
       LET called == Range(hub_call'.inits) IN
       /\ Len(slots') = Len(slots)
       /\ \A i \in 1..Len(slots) : slots'[i].type = slots[i].type
       /\ \A k \in 1..(Len(hub_call'.inits) - 1) : hub_call'.inits[k] < hub_call'.inits[k + 1]
       /\ called \subseteq Uninitialised
       /\ IF InitFails = {}
          THEN /\ hub_call'.ret = "OK"
               /\ called = Uninitialised
               /\ \A i \in 1..Len(slots) : slots'[i].initialized
          ELSE LET j == CHOOSE i \in InitFails : \A k \in InitFails : i <= k IN
               /\ hub_call'.ret = "ENODEV"
               /\ called = {i \in Uninitialised : i <= j}
               /\ \A i \in 1..Len(slots) :
                    slots'[i].initialized <=> (slots[i].initialized \/ (i \in called /\ i < j))]_vars

C20_Witness ==
  /\ hub_call.op = "init_all" /\ hub_call.ret = "ENODEV"
  /\ Len(hub_call.inits) >= 2
  /\ hub_call.inits[1] > 1
  /\ hub_call.inits[Len(hub_call.inits)] < Len(slots)
  /\ \A i \in 1..Len(slots) : slots[i].initialized <=> i < hub_call.inits[Len(hub_call.inits)]

\* ---------------------------------------------------------------------------
\* C21: for every registered type and every buffer size from 0 to one byte less than
\* the type's sample size, read with a non-null buffer returns BufferTooSmall
\* (-ENOSPC) and neither initialises the slot, nor calls a driver init or the
\* driver's read, nor writes the buffer; and the last read the application made
\* with such a size ended that way.
SmallSizes(t) == 0..(DriverSampleSize(t) - 1)

C21_BufferTooSmall ==
  /\ \A i \in 1..Len(slots) : \A size \in SmallSizes(slots[i].type) : \A outcome \in {0, 1} :
       LET r == hub_read(slots, drv_ready, dev_ready, slots[i].type, FALSE, size, outcome) IN
       /\ r.ret = "ENOSPC"
       /\ r.slots = slots /\ r.ready = drv_ready
       /\ r.inits = <<>> /\ ~r.reads /\ ~r.wrote
  /\ (/\ hub_call.op = "read" /\ hub_call.ret # "EINVAL"
      /\ hub_call.type \in RegisteredTypes(slots)
      /\ hub_call.size \in SmallSizes(hub_call.type))
     => (/\ hub_call.ret = "ENOSPC"
         /\ hub_call.inits = <<>> /\ ~hub_call.reads /\ ~hub_call.wrote)

\* a read one byte short was refused while the slot was still uninitialised and its
\* device answering
C21_Witness ==
  /\ hub_call.op = "read" /\ hub_call.ret = "ENOSPC"
  /\ hub_call.size = DriverSampleSize(hub_call.type) - 1
  /\ \E i \in 1..Len(slots) :
       slots[i].type = hub_call.type /\ ~slots[i].initialized /\ dev_ready[slots[i].type]

\* ---------------------------------------------------------------------------
\* C22: in every state the Hub reaches by register, init, init_all and read, no two
\* slots hold the same type and at most kMaxDrivers slots are used; every step keeps
\* the slots it found, in their order, a successful register adds its type as the
\* last one (so registered_type_at enumerates in registration order), and a slot
\* never goes back from initialised to registered or from registered to free.
SlotsWellFormed ==
  /\ registered_count(slots) <= kMaxDrivers
  /\ \A i, j \in 1..Len(slots) : slots[i].type = slots[j].type => i = j

SlotsMoveForward ==
  /\ Len(slots') \in {Len(slots), Len(slots) + 1}
  /\ \A i \in 1..Len(slots) :
       /\ registered_type_at(slots', i) = registered_type_at(slots, i)
       /\ slots[i].initialized => slots'[i].initialized
  /\ Len(slots') = Len(slots) + 1
       <=> (hub_call' # hub_call /\ hub_call'.op = "register_driver" /\ hub_call'.ret = "OK")
  /\ Len(slots') = Len(slots) + 1
       => /\ registered_type_at(slots', Len(slots')).type = hub_call'.type
          /\ ~slots'[Len(slots')].initialized

C22_HubInvariants == []SlotsWellFormed /\ [][SlotsMoveForward]_vars

\* the table is full, the last call was a read that initialised its slot, and other
\* slots are still only registered
C22_Witness ==
  /\ Len(slots) = kMaxDrivers
  /\ hub_call.op = "read" /\ hub_call.ret = "OK" /\ hub_call.inits # <<>>
  /\ \E i \in 1..Len(slots) : ~slots[i].initialized

\* ---------------------------------------------------------------------------
\* C29: a read of a registered, uninitialised type with a buffer that is not null and
\* large enough first calls that slot's driver init, once; when the init fails, read
\* returns the init's error, the driver's read is not called and the slot stays
\* uninitialised; after every read that returns success the slot is initialised.
IsReadStep == hub_call' # hub_call /\ hub_call'.op = "read"

LazyInitFirst ==
  LET t == hub_call'.type
      idx == find_slot(slots, t)
  IN (/\ IsReadStep /\ idx > 0 /\ hub_call'.ret # "EINVAL"
      /\ hub_call'.size >= DriverSampleSize(t)
      /\ ~slots[idx].initialized)
     => /\ hub_call'.inits = <<idx>>
        /\ IF drv_ready[t] \/ dev_ready[t]
           THEN slots'[idx].initialized /\ hub_call'.reads
           ELSE /\ hub_call'.ret = "ENODEV"
                /\ ~hub_call'.reads /\ ~hub_call'.wrote
                /\ ~slots'[idx].initialized

ReadOkInitialised ==
  (hub_call.op = "read" /\ hub_call.ret = "OK")
    => /\ find_slot(slots, hub_call.type) > 0
       /\ slots[find_slot(slots, hub_call.type)].initialized
       /\ hub_call.reads /\ hub_call.wrote

C29_LazyInit == []ReadOkInitialised /\ [][LazyInitFirst]_vars

\* a read found its slot uninitialised, called the driver init and succeeded, while
\* another slot is still uninitialised and its device silent
C29_Witness ==
  /\ hub_call.op = "read" /\ hub_call.ret = "OK" /\ hub_call.inits # <<>>
  /\ \E i \in 1..Len(slots) : ~slots[i].initialized /\ ~dev_ready[slots[i].type]

\* ---------------------------------------------------------------------------
\* C30: init(type) returns NotFound (-ENOENT) for a type that is not registered and
\* calls no driver; for an initialised slot it returns success without calling the
\* driver's init; otherwise it calls the driver's init once, returns what the driver
\* returned, and marks the slot initialised only when the driver succeeded.  In all
\* three cases every other slot is left as it was.
IsInitStep == hub_call' # hub_call /\ hub_call'.op = "init"

InitByCase ==
  LET t == hub_call'.type
      idx == find_slot(slots, t)
  IN IsInitStep
     => /\ Len(slots') = Len(slots)
        /\ \A i \in 1..Len(slots) : i # idx => slots'[i] = slots[i]
        /\ IF idx = 0
           THEN hub_call'.ret = "ENOENT" /\ hub_call'.inits = <<>> /\ drv_ready' = drv_ready
           ELSE IF slots[idx].initialized
           THEN /\ hub_call'.ret = "OK" /\ hub_call'.inits = <<>>
                /\ slots'[idx] = slots[idx] /\ drv_ready' = drv_ready
           ELSE /\ hub_call'.inits = <<idx>>
                /\ hub_call'.ret = (IF drv_ready[t] \/ dev_ready[t] THEN "OK" ELSE "ENODEV")
                /\ slots'[idx].type = t
                /\ slots'[idx].initialized <=> hub_call'.ret = "OK"

C30_InitOneSlot == [][InitByCase]_vars

\* init(type) has just failed on a silent device and left its slot uninitialised,
\* beside a slot that is initialised
C30_Witness ==
  /\ hub_call.op = "init" /\ hub_call.ret = "ENODEV" /\ hub_call.inits # <<>>
  /\ \E i \in 1..Len(slots) : slots[i].type = hub_call.type /\ ~slots[i].initialized
  /\ \E i \in 1..Len(slots) : slots[i].initialized

\* ---------------------------------------------------------------------------
\* C23: after a successful run() the log and the persistence deadlines are due at
\* once: in its first loop iteration (the clock still at the start, 0) the worker
\* reaches maybe_log_snapshot with both deadlines passed, and when it goes to sleep
\* it has rendered a snapshot log and, a sample being valid, called write_file.
C23_DueImmediately ==
  \A w \in Workers :
    now = 0 =>
      /\ worker[w].pc = "log" => (next_log_ms_ <= now /\ next_persist_ms_ <= now)
      /\ worker[w].pc = "sleep"
           => /\ log_snapshot # <<>>
              /\ (\E i \in 1..cache_count_ : cache_[i].valid) => sd_calls >= 1

\* ---------------------------------------------------------------------------
\* C24 (as stated): while persistence is enabled, every persistence period that comes
\* due appends exactly one row to the run's file.
RowCount(writes, path) ==
  Cardinality({k \in 1..Len(writes) : writes[k].kind = "row" /\ writes[k].path = path})

\* some INA226 or AHT20 entry of the cache holds a sample
BuiltinValid ==
  \E i \in 1..cache_count_ :
    /\ cache_[i].valid /\ cache_[i].type \in Types
    /\ cache_[i].sample_size >= DriverSampleSize(cache_[i].type)

\* worker w ends a maybe_persist_snapshot call that found the deadline due and
\* persistence enabled
PersistDue(w) ==
  /\ worker[w].pc \in {"persist", "persist_write"} /\ worker'[w].pc = "sleep"
  /\ next_persist_ms_ <= now
  /\ storage_persist_enabled_

C24_RowEveryPeriod ==
  [][\A w \in Workers :
       PersistDue(w) => RowCount(sd_writes', persist_file_path_)
                          = RowCount(sd_writes, persist_file_path_) + 1]_vars

\* C24 (amended): a due period with persistence enabled appends exactly one row when
\* an INA226 or AHT20 sample is valid, the RTC answers and the storage accepts the
\* writes; otherwise it appends none, and persistence stays enabled unless a write
\* failed (no sample valid: nothing is written; RTC unreadable: the row is skipped).
RowWritable == BuiltinValid /\ persist_file_path_ # NoPath /\ rtc_ok /\ sd_ok

StaysEnabled ==
  \/ ~BuiltinValid
  \/ /\ persist_file_path_ # NoPath
     /\ storage_header_written_ \/ sd_ok
     /\ ~rtc_ok \/ sd_ok

C24_RowWhenWritable ==
  [][\A w \in Workers :
       PersistDue(w)
         => /\ RowCount(sd_writes', persist_file_path_)
                 = RowCount(sd_writes, persist_file_path_) + (IF RowWritable THEN 1 ELSE 0)
            /\ storage_persist_enabled_' <=> StaysEnabled
            /\ next_persist_ms_' = now + kPersistPeriodMs]_vars

\* two persistence periods have come due: one appended a row, the other none, and
\* persistence is still enabled
C24_Witness ==
  /\ next_persist_ms_ = 3 * kPersistPeriodMs
  /\ RowCount(sd_writes, persist_file_path_) = 1
  /\ storage_persist_enabled_

\* ---------------------------------------------------------------------------
\* C25: in every row the worker appends, the columns of a type (bus_mv, current_ma,
\* power_mw for the INA226; temp_mc, rh_mpermille for the AHT20) are all -1 when the
\* cache holds no valid sample of that type at that moment, and otherwise are the
\* fields of that type's cached sample.
RowAppended ==
  /\ Len(sd_writes') > Len(sd_writes)
  /\ sd_writes'[Len(sd_writes')].kind = "row"

\* the columns of the row that carry the fields of type t: column, field
RowColumns(t) == IF t = Ina226 THEN {<<2, 1>>, <<3, 2>>, <<4, 3>>} ELSE {<<5, 1>>, <<6, 2>>}

ValidEntries(t) == {i \in 1..cache_count_ : cache_[i].valid /\ cache_[i].type = t}

RowCarriesCache ==
  RowAppended
    => LET row == sd_writes'[Len(sd_writes')].data IN
       \A t \in Types :
         IF ValidEntries(t) = {}
         THEN \A c \in RowColumns(t) : row[c[1]] = -1
         ELSE \E i \in ValidEntries(t) : \A c \in RowColumns(t) : row[c[1]] = cache_[i].data[c[2]]

C25_SentinelOrSample == [][RowCarriesCache]_vars

\* a row was appended that carries -1 for the INA226 and the cached AHT20 sample
C25_Witness ==
  \E k \in 1..Len(sd_writes) :
    /\ sd_writes[k].kind = "row"
    /\ sd_writes[k].data[2] = -1 /\ sd_writes[k].data[3] = -1 /\ sd_writes[k].data[4] = -1
    /\ \E v \in 1..NumVals : sd_writes[k].data[5] = FieldVal(Aht20, 1, v)
                              /\ sd_writes[k].data[6] = FieldVal(Aht20, 2, v)

\* ---------------------------------------------------------------------------
\* C26: in each run the header is written once, in truncate mode, before the first
\* row, and every row in append mode: among the writes to one run's file there is at
\* most one header, it comes first, and the file that results holds the header and
\* then rows only.  storage_header_written_ tells whether the running run has written
\* its header.
WritesTo(path) == SelectSeq(sd_writes, LAMBDA r : r.path = path)

\* the file after write_file calls ws: truncate mode replaces it, append mode adds
RECURSIVE FileAfter(_, _)
FileAfter(ws, k) ==
  IF k = 0 THEN <<>>
  ELSE IF ws[k].append THEN Append(FileAfter(ws, k - 1), ws[k].data)
  ELSE <<ws[k].data>>

C26_HeaderOnce ==
  /\ \A k \in 1..Len(sd_writes) :
       LET ws == WritesTo(sd_writes[k].path)
           file == FileAfter(ws, Len(ws))
       IN /\ ws[1].kind = "header" /\ ~ws[1].append
          /\ \A j \in 2..Len(ws) : ws[j].kind = "row" /\ ws[j].append
          /\ Len(file) = Len(ws) /\ file[1] = kHeader
          /\ \A j \in 2..Len(file) : Len(file[j]) = 6
  /\ (running_ = 1 /\ persist_file_path_ # NoPath)
       => (storage_header_written_ <=> WritesTo(persist_file_path_) # <<>>)

\* two runs have each written their header and a row after it, to different files
C26_Witness ==
  \E j, k \in 1..Len(sd_writes) :
    /\ j + 1 < k
    /\ sd_writes[j].kind = "header" /\ sd_writes[j + 1].kind = "row"
    /\ sd_writes[k].kind = "header" /\ sd_writes[k].path # sd_writes[j].path
    /\ k < Len(sd_writes)

\* ---------------------------------------------------------------------------
\* C27: persist_file_path_ changes only in run(), where it is cleared and then set
\* from the clock, once, while no worker is in its loop; the worker never changes it,
\* every header and row it writes goes to that path, and the path stays as run() set
\* it for as long as the worker of that run polls.
InLoop(w) == worker[w].pc \notin {"dead", "exit1", "exit2"}

PathFrame ==
  /\ persist_file_path_' # persist_file_path_
       => /\ \A w \in Workers : ~InLoop(w) /\ worker'[w] = worker[w]
          /\ \E c \in RunCallers :
               \/ rcall[c].pc = "reset" /\ rcall'[c].pc = "path"
                    /\ persist_file_path_' = NoPath
               \/ rcall[c].pc = "path" /\ rcall'[c].pc = "create" /\ rtc_ok
                    /\ persist_file_path_ = NoPath
                    /\ persist_file_path_' = <<"/SD:/", now, "_sensor.csv">>
  /\ \A c \in RunCallers :
       (rcall[c].pc = "create" /\ rcall'[c].pc = "idle" /\ rcall'[c].ret = "OK")
         => persist_file_path_' = persist_file_path_ /\ persist_file_path_ # NoPath
  /\ \A k \in (Len(sd_writes) + 1)..Len(sd_writes') :
       /\ sd_writes'[k].path = persist_file_path_
       /\ persist_file_path_' = persist_file_path_

PathSetWhilePolling ==
  \A w \in Workers : InLoop(w) => persist_file_path_ # NoPath

C27_PathOncePerRun == []PathSetWhilePolling /\ [][PathFrame]_vars

\* the second run has appended a row to its own file, the first run's file being
\* another one
C27_Witness ==
  /\ rcall[1].calls = 2
  /\ \E j, k \in 1..Len(sd_writes) :
       /\ j < k
       /\ sd_writes[j].path # persist_file_path_
       /\ sd_writes[k].path = persist_file_path_ /\ sd_writes[k].kind = "row"

\* ---------------------------------------------------------------------------
\* C28: the header written to each file is exactly the column list
\* timestamp,bus_mv,current_ma,power_mw,temp_mc,rh_permille followed by a newline,
\* and every row carries six columns: the time, then the INA226 and AHT20 fields.
C28_HeaderText ==
  \A k \in 1..Len(sd_writes) :
    IF sd_writes[k].kind = "header"
    THEN sd_writes[k].data = "timestamp,bus_mv,current_ma,power_mw,temp_mc,rh_permille\n"
    ELSE Len(sd_writes[k].data) = 6

\* ---------------------------------------------------------------------------
\* C31: whenever a worker is polling, the cache mirrors the Hub's registrations as
\* they were when run() rebuilt it: the entry count is at most kMaxDrivers and at most
\* the Hub's count, entry i has the type and the declared sample size of Hub slot i,
\* the entry types are distinct and no sample size exceeds kMaxSampleBytes; and a
\* run() that passes the rebuild leaves the entry count equal to the Hub's count.
CacheMirrorsHub ==
  (\E w \in Workers : Polling(w))
    => /\ cache_count_ <= kMaxDrivers /\ cache_count_ <= Len(slots)
       /\ \A i \in 1..cache_count_ :
            /\ cache_[i].type = slots[i].type
            /\ cache_[i].sample_size = DriverSampleSize(slots[i].type)
            /\ cache_[i].sample_size <= kMaxSampleBytes
       /\ \A i, j \in 1..cache_count_ : cache_[i].type = cache_[j].type => i = j

RebuildTakesAll ==
  \A c \in RunCallers :
    (rcall[c].pc = "rebuild" /\ rcall'[c].pc = "reset") => cache_count_' = Len(slots)

C31_CacheMirrorsHub == []CacheMirrorsHub /\ [][RebuildTakesAll]_vars

\* a worker polls the two built-in types while the Hub holds a third driver,
\* registered after run() rebuilt the cache
C31_Witness ==
  /\ \E w \in Workers : Polling(w) /\ worker[w].pc = "read"
  /\ cache_count_ = 2 /\ Len(slots) = 3

\* ---------------------------------------------------------------------------
\* C32: a maybe_persist_snapshot call that finds the deadline due moves it one
\* persistence period ahead of the time of the call, whether the attempt wrote a row,
\* failed, skipped the row or found persistence disabled; a call before the deadline
\* writes nothing and leaves the deadline; write_file is called only in a due call.
\* Hence when the worker goes to sleep the deadline lies ahead: one attempt a period.
PersistCallEnds(w) ==
  worker[w].pc \in {"persist", "persist_write"} /\ worker'[w].pc = "sleep"

DeadlineMoves ==
  /\ \A w \in Workers :
       PersistCallEnds(w)
         => IF now < next_persist_ms_
            THEN /\ next_persist_ms_' = next_persist_ms_
                 /\ sd_calls' = sd_calls /\ sd_writes' = sd_writes
            ELSE next_persist_ms_' = now + kPersistPeriodMs
  /\ sd_calls' # sd_calls
       => next_persist_ms_ <= now /\ next_persist_ms_' = now + kPersistPeriodMs

DeadlineAhead == \A w \in Workers : worker[w].pc = "sleep" => now < next_persist_ms_

C32_DeadlineAlwaysMoves == []DeadlineAhead /\ [][DeadlineMoves]_vars

\* the first due period failed at the header and latched persistence off; the second
\* came due with persistence disabled and moved the deadline to the third
C32_Witness ==
  /\ ~storage_persist_enabled_ /\ sd_calls = 1 /\ sd_writes = <<>>
  /\ now = 2 * kPersistPeriodMs /\ next_persist_ms_ = 3 * kPersistPeriodMs
  /\ \E w \in Workers : worker[w].pc = "sleep"

\* ---------------------------------------------------------------------------
\* C33: a due snapshot-log step that finds no cache entry valid logs exactly the one
\* "waiting first valid samples" line; one that finds a valid entry logs no waiting
\* line and one line per valid entry, in cache order: the INA226 line, the AHT20 line,
\* the generic "sample updated" line for any other tag.  The log deadline then moves
\* one log period ahead.
LineOfType(t) ==
  IF t = Ina226 THEN "INA226" ELSE IF t = Aht20 THEN "AHT20" ELSE "sample updated"

RECURSIVE ExpectedLines(_)
ExpectedLines(i) ==
  IF i > cache_count_ THEN <<>>
  ELSE (IF cache_[i].valid THEN <<LineOfType(cache_[i].type)>> ELSE <<>>)
       \o ExpectedLines(i + 1)

LogStepEnds(w) == worker[w].pc \in {"log", "log_emit"} /\ worker'[w].pc = "persist"

SnapshotLogged ==
  \A w \in Workers :
    (LogStepEnds(w) /\ next_log_ms_ <= now)
      => /\ log_snapshot' = IF \E i \in 1..cache_count_ : cache_[i].valid
                            THEN ExpectedLines(1)
                            ELSE <<"waiting first valid samples">>
         /\ next_log_ms_' = now + kLogPeriodMs

C33_SnapshotOrWaiting == [][SnapshotLogged]_vars

\* a due log step has printed the AHT20 line and the generic line of the application's
\* driver, the INA226 entry being invalid
C33_Witness ==
  /\ log_snapshot = <<"AHT20", "sample updated">>
  /\ ~cache_[1].valid /\ cache_[1].type = Ina226
  /\ \E w \in Workers : worker[w].pc = "persist"

\* ---------------------------------------------------------------------------
\* C34: a stop request that arrives in the middle of an iteration does not cut the
\* iteration short.  The worker leaves its loop only at the loop condition, and there
\* always when stop_requested_ is set; with the request pending every other step
\* goes on to the step the loop body has next, so the remaining entries are read
\* (every entry has been read once per iteration when the log step begins) and the
\* log and persistence steps run before the worker reaches the loop condition again.
NextInBody(pc) ==
  CASE pc = "read" -> {"read", "store", "log"}
    [] pc = "store" -> {"store", "mark"}
    [] pc = "mark" -> {"marked"}
    [] pc = "marked" -> {"read", "log"}
    [] pc = "log" -> {"log_lock", "persist"}
    [] pc = "log_lock" -> {"log_copy"}
    [] pc = "log_copy" -> {"log_emit"}
    [] pc = "log_emit" -> {"log_lock", "persist"}
    [] pc = "persist" -> {"persist_lock", "sleep"}
    [] pc = "persist_lock" -> {"persist_copy"}
    [] pc = "persist_copy" -> {"persist_lock", "persist_write"}
    [] pc = "persist_write" -> {"sleep"}
    [] pc = "sleep" -> {"check"}
    [] OTHER -> {}

MidIteration(w) == worker[w].pc \notin {"dead", "start", "check", "exit1", "exit2"}

StopKeepsIteration ==
  \A w \in Workers :
    /\ (worker'[w].pc = "exit1" /\ worker[w].pc # "exit1")
         => worker[w].pc = "check" /\ stop_requested_ # 0
    /\ (worker[w].pc = "check" /\ stop_requested_ # 0 /\ worker'[w] # worker[w])
         => worker'[w].pc = "exit1"
    /\ (MidIteration(w) /\ stop_requested_ # 0 /\ worker'[w] # worker[w])
         => /\ worker'[w].pc \in NextInBody(worker[w].pc)
            /\ (worker[w].pc \in {"read", "marked"} /\ worker'[w].pc = "read")
                 => worker'[w].i = worker[w].i + 1
            /\ (worker[w].pc \in {"read", "marked"} /\ worker'[w].pc = "log")
                 => worker[w].i = cache_count_

EntriesAllRead ==
  \A w \in Workers :
    worker[w].pc \in {"log", "log_lock", "log_copy", "log_emit", "persist", "persist_lock",
                      "persist_copy", "persist_write", "sleep"}
      => \A i \in 1..cache_count_ : hist[i].n = hist[1].n /\ hist[i].n >= 1

C34_StopAtLoopCheck == []EntriesAllRead /\ [][StopKeepsIteration]_vars

\* the stop request is pending while the worker, past the first entry, prints a due
\* snapshot log
C34_Witness ==
  /\ stop_requested_ = 1
  /\ \E w \in Workers : worker[w].pc = "log_emit" /\ worker[w].i = cache_count_
  /\ cache_count_ = 2

\* ---------------------------------------------------------------------------
\* C35: after any number of calls of the accessor each built-in driver is registered
\* exactly once, in the first two slots; a call after the first leaves the table as
\* it is (the count does not grow), and no call resets the initialized flag of a slot
\* or removes one.
IsAccessorStep == hub_call'.op = "sensor_hub"

AccessorKeepsTable ==
  IsAccessorStep
    => /\ Len(slots') >= Len(slots)
       /\ \A i \in 1..Len(slots) : slots'[i] = slots[i]
       /\ hub_call.op # "none" => slots' = slots
       /\ hub_call.op = "none" => Len(slots') = 2

BuiltinOnce ==
  hub_call.op # "none"
    => /\ \A t \in Types : Cardinality({i \in 1..Len(slots) : slots[i].type = t}) = 1
       /\ slots[1].type = Ina226 /\ slots[2].type = Aht20

C35_AccessorIdempotent == []BuiltinOnce /\ [][AccessorKeepsTable]_vars

\* the accessor has just been called again on a Hub that holds an application's
\* driver and whose INA226 slot is initialised
C35_Witness ==
  /\ hub_call.op = "sensor_hub"
  /\ Len(slots) = 3 /\ slots[1].initialized /\ ~slots[3].initialized

\* ---------------------------------------------------------------------------
\* C36: at most one worker thread of the Service is alive at any time: thread_ and
\* stack_ are not handed to a new worker while the previous one still executes, and
\* the thread id of a worker in its loop is never overwritten with null.
C36_SingleWorker ==
  /\ Cardinality({w \in Workers : worker[w].pc # "dead"}) <= 1
  /\ \A w \in Workers : InLoop(w) => thread_id_ = w

\* ---------------------------------------------------------------------------
\* two callers of run() and no stop(): a call can meet the other one in start-up, and
\* the RTC can fail under a start-up
NextTwoRuns ==
  \/ \E c \in RunCallers : RunStep(c, MaxRunsOverlap)
  \/ \E w \in Workers : WorkerLoopStep(w, MaxRoundsLife, {1})
  \/ RtcChange

SpecTwoRuns == InitOverlap /\ [][NextTwoRuns]_vars

\* a run() call is between its atomic_cas and its return
StartingUp == \E c \in RunCallers : rcall[c].pc # "idle"

\* C37: once a run() call has returned success, and with no stop() since, the service
\* is running: a worker polls the Hub (or, at the least, a start-up is under way).
C37_SuccessMeansRunning ==
  \A c \in RunCallers :
    (rcall[c].pc = "idle" /\ rcall[c].ret = "OK") =>
      \/ \E w \in Workers : Polling(w)
      \/ StartingUp

\* ---------------------------------------------------------------------------
\* Restart under a reader: the Service on the global Hub is started, stopped and
\* started again while a thread calls get_latest for the INA226 sample; the calls begin
\* while a worker polls, so that the lock they take has been initialised by run()
NextRelock ==
  \/ RunStep(1, MaxRunsLatch)
  \/ \E w \in Workers : WorkerStep(w, MaxRoundsLife, {1})
  \/ \E s \in StopCallers : StopStep(s)
  \/ \E g \in Readers :
       \/ (\E w \in Workers : Polling(w)) /\ GetCall(g, Ina226, SizeofIna226Sample, FALSE)
       \/ GetLock(g)
       \/ GetCheck(g)
       \/ GetCopy(g)

SpecRelock == InitCache /\ [][NextRelock]_vars

\* the threads between a k_mutex_lock(&mutex_) that returned and their k_mutex_unlock
ReadersInside == {g \in Readers : gcall[g].pc \in {"check", "copy"}}
WorkersInside == {w \in Workers : worker[w].pc \in {"marked", "log_copy", "persist_copy"}}

\* the cache entries and their count are written only by a thread that owns the lock
\* or by run() while no thread is inside a section
LayoutWrite ==
  (cache_count_' # cache_count_ \/ \E i \in CacheIdx : cache_'[i].type # cache_[i].type
                                                       \/ cache_'[i].sample_size # cache_[i].sample_size)
    => ReadersInside = {} /\ WorkersInside = {}

\* C38: the cache lock gives mutual exclusion in every reachable state: at most one
\* thread is between lock and unlock, that thread owns the lock, and run() does not
\* rebuild the cache layout while a get_latest call is inside its section.
C38_MutualExclusion ==
  /\ [](/\ Cardinality(ReadersInside) + Cardinality(WorkersInside) <= 1
        /\ \A g \in ReadersInside : mutex_ = g
        /\ \A w \in WorkersInside : mutex_ = WorkerOwner(w))
  /\ [][LayoutWrite]_vars

\* ---------------------------------------------------------------------------
\* no run() call is in progress, one has returned an error and none has ever started a
\* worker (no stop() here: a worker, once started, stays)
OnlyFailedRuns ==
  /\ \A c \in RunCallers : rcall[c].pc = "idle"
  /\ \E c \in RunCallers : RunFailed(c)
  /\ \A w \in Workers : worker[w].pc = "dead"

\* C39: a run() that fails leaves the cache table as it was before the call: after
\* nothing but failed calls the table is the one the constructor left, with no entry,
\* so that get_latest answers what it answered before.
C39_FailedRunKeepsCache ==
  OnlyFailedRuns =>
    /\ cache_count_ = 0
    /\ \A i \in CacheIdx : cache_[i] = EmptyEntry

\* ---------------------------------------------------------------------------
\* worker w ends a due persist_snapshot_to_storage call that gets as far as the RTC
\* read (a sample to write, a file path, the header written or writable)
ReachesRtcRead(w) ==
  /\ PersistDue(w)
  /\ BuiltinValid /\ persist_file_path_ # NoPath
  /\ storage_header_written_ \/ sd_ok

\* a due row with the RTC not answering is skipped: no row is written and nothing is
\* latched
RtcSkipKeeps ==
  \A w \in Workers :
    (ReachesRtcRead(w) /\ ~rtc_ok)
      => /\ RowCount(sd_writes', persist_file_path_) = RowCount(sd_writes, persist_file_path_)
         /\ storage_persist_enabled_'
         /\ storage_header_written_'
         /\ persist_file_path_' = persist_file_path_
         /\ storage_error_streak_' = storage_error_streak_ + 1

\* with persistence enabled a positive streak counts the due rows skipped for the RTC;
\* the next due row with RTC and storage working is appended to the same file, under
\* the header written before
RowsResume ==
  \A w \in Workers :
    (ReachesRtcRead(w) /\ storage_error_streak_ > 0 /\ storage_header_written_
       /\ rtc_ok /\ sd_ok)
      => /\ RowAppended
         /\ Len(sd_writes') = Len(sd_writes) + 1
         /\ sd_writes'[Len(sd_writes')].path = persist_file_path_
         /\ sd_writes'[Len(sd_writes')].append
         /\ storage_persist_enabled_' /\ storage_header_written_'
         /\ storage_error_streak_' = 0

\* C40: when the wall clock cannot be read for a due row, the row is skipped without
\* latching: persistence stays enabled, the header stays written, and a later due
\* period with a readable clock appends its row.
C40_RtcSkipNoLatch == [][RtcSkipKeeps /\ RowsResume]_vars

\* a row was skipped for the RTC and a later period has written one
C40_Witness ==
  /\ storage_persist_enabled_ /\ storage_header_written_
  /\ \E k \in 1..Len(persist_errs) : persist_errs[k] = "rtc read failed, skip persist"
  /\ Len(sd_writes) = 2
  /\ sd_writes[1].kind = "header" /\ sd_writes[2].kind = "row"
  /\ sd_writes[2].data[1] >= 2 * kPersistPeriodMs

====
